---- MODULE Spec2Model ----
(***************************************************************************)
(* Speedrun dashboard core: the ranking / obsolescence engine              *)
(* (dashboard_core/processing_runs.py), the verified-run repository        *)
(* (dashboard_core/fetch_runs.py) and the resilient fetch client           *)
(* (dashboard_core/api_utils.py), the paginated collector (api_client.py), *)
(* the enricher (processing_runs.py) and the snapshot / refresh clock      *)
(* (data_io.py, io_utils.py).                                              *)
(*                                                                         *)
(* Specifications sharing the module:                                      *)
(*   SpecRank    - process_runs() lines 102-120 applied to every bounded   *)
(*                 table of normalized rows;                               *)
(*   SpecRepo    - repeated fetch_verified_runs() calls against a cache    *)
(*                 file that starts absent;                                *)
(*   SpecFetch   - one fetch_api_cached() call, one step per loop          *)
(*                 iteration;                                              *)
(*   SpecCollect - one ApiClient.get_all_runs() call, one step per page;   *)
(*   SpecProc    - process_runs() from the catalog fetches to its return;  *)
(*   SpecData    - get_data() calls as the clock advances.                 *)
(***************************************************************************)
EXTENDS Integers, Sequences, FiniteSets, TLC

VARIABLES
    \* ---- processing_runs.py ----
    df,             \* the DataFrame: a sequence of rows
    rpc,            \* position in process_runs: "catalogs" (line 62), "levels"
                    \* (71), "names" (78), "normalized" (102), "done" (120),
                    \* "returned", "raised"
    categoryCache,  \* content of CATEGORY_CACHE_FILE
    levelCache,     \* content of LEVEL_CACHE_FILE
    playerCache,    \* content of PLAYER_CACHE_FILE
    categories,     \* locals of process_runs
    levels,
    player_map,
    catalogFetches, \* the catalog fetches of this run, in order
    processed,      \* how process_runs ended
    \* ---- fetch_runs.py ----
    vpc,            \* "idle" between calls, "ended" when a call has just ended
    cacheFile,      \* content of CACHE_FILE: absent, corrupt or a list of runs
    existing_runs,  \* locals of the last fetch_verified_runs() call
    fetched_runs,
    last_exc,
    combined,
    verified_runs,
    writeOk,        \* what safe_write_json(CACHE_FILE, ...) returned
    outcome,        \* how the last call ended: returned list or raised error
    cacheBefore,    \* CACHE_FILE as it was when the last call started
    once,           \* set when the last call repeated the one before it:
                    \* CACHE_FILE and the write result after that first call
    prev,           \* how the call before the last one ended
    \* ---- api_utils.py ----
    fpc,            \* position in fetch_api_cached
    attempt,        \* loop variable of `for attempt in range(max_retries + 1)`
    max_retries,
    backoff_sec,
    cache_file,     \* the cache_file argument: NA (None) or a path
    apiCache,       \* content of that file: absent, corrupt or a JSON value
    responses,      \* the HTTP exchanges of this call, in order
    sleeps,         \* the time.sleep() arguments of this call, in order
    f_last_exc,     \* last_exc of fetch_api_cached
    result,         \* how the call ended
    \* ---- api_client.py ----
    cpc,            \* position in get_all_runs: "request" (line 98), "returned", "raised"
    self_page_size, \* ApiClient.page_size
    page_size,      \* the page_size argument: NoArg (None) or <<n>>
    max_pages,      \* the max_pages argument: NoArg (None) or <<n>>
    runs_cache_file,\* the cache_file argument: NA (None) or a path
    runsCache,      \* content of that file
    upstream,       \* how many runs the API holds for the game
    offset,
    all_runs,
    pages_fetched,
    requests,       \* the get_runs calls of this call, in order
    collected,      \* how the call ended
    \* ---- data_io.py ----
    clock,          \* time.time(), epoch seconds
    ticks,          \* how often the clock has advanced
    refreshFile,    \* content of LAST_REFRESH_FILE
    dataFile,       \* content of DATA_FILE, the processed snapshot
    dpc,            \* "idle" before the first get_data call, then "ended"
    force_refresh,  \* argument and locals of the last get_data call
    now,
    last_refresh,
    ran,            \* whether the call ran load_and_cache
    stamped,        \* what its set_global_last_refresh returned
    returned,       \* how the call ended
    refreshBefore,  \* LAST_REFRESH_FILE and DATA_FILE when the call started
    dataBefore,
    lastSuccess,    \* `now` of the last call whose load_and_cache returned
    retrying,       \* the last load_and_cache run raised
    wasRetry,       \* it had raised when the last call started
    \* ---- io_utils.py: set_global_last_refresh step by step ----
    spc,            \* position: "idle", "mkdir", "open", "dump", "replace", "except", "returned"
    lastRefreshFile,\* content of LAST_REFRESH_FILE
    tmpFile,        \* content of tmp, LAST_REFRESH_FILE.with_suffix(".tmp")
    stamp_ts,       \* the ts argument
    stampResult,    \* how the call ended
    targetBefore,   \* LAST_REFRESH_FILE when the call started
    failedAt,       \* the step of the try block that raised, "none" if none
    cleanup,        \* the except clause: "none", "absent", "removed", "failed"
    \* ---- processing_runs.py lines 81-95 over several runs ----
    runNo,          \* how many process_runs calls have resolved their players
    input_ids,      \* unique_player_ids of the last run
    looked_up,      \* the ids it fetched users/{p_id} for
    answers,        \* how each of these lookups went
    cacheAtStart,   \* PLAYER_CACHE_FILE when the run started
    playerWrite,    \* how the write of line 95 went
    failedBefore,   \* the ids whose lookup failed in an earlier run
    writtenBefore,  \* every write of line 95 of the earlier runs succeeded
    \* ---- processing_runs.py lines 27-60 ----
    npc,            \* "idle", "clean" (line 36), "cleaned" (line 60), "raised"
    runs_in,        \* the list fetch_verified_runs returned
    cleaned_runs,   \* the rows of line 60
    norm_error      \* the exception that left process_runs, if one did

rankVars  == <<df, rpc>>
repoVars  == <<vpc, cacheFile, existing_runs, fetched_runs, last_exc, combined,
               verified_runs, writeOk, outcome, cacheBefore, once, prev>>
fetchVars == <<fpc, attempt, max_retries, backoff_sec, cache_file, apiCache,
               responses, sleeps, f_last_exc, result>>
procVars  == <<categoryCache, levelCache, playerCache, categories, levels,
               player_map, catalogFetches, processed>>
collectVars == <<cpc, self_page_size, page_size, max_pages, runs_cache_file,
                 runsCache, upstream, offset, all_runs, pages_fetched, requests,
                 collected>>
dataVars  == <<clock, ticks, refreshFile, dataFile, dpc, force_refresh, now,
               last_refresh, ran, stamped, returned, refreshBefore, dataBefore,
               lastSuccess, retrying, wasRetry>>
stampVars == <<spc, lastRefreshFile, tmpFile, stamp_ts, stampResult, targetBefore,
               failedAt, cleanup>>
playersVars == <<runNo, input_ids, looked_up, answers, cacheAtStart, playerWrite,
                 failedBefore, writtenBefore>>
normVars == <<npc, runs_in, cleaned_runs, norm_error>>
vars == <<rankVars, repoVars, fetchVars, collectVars, procVars, dataVars, stampVars, playersVars, normVars>>

\* ------------------------------------------------------------------------
\* Shared encodings
\* ------------------------------------------------------------------------

\* Python None / pandas NaN in a string-valued column or variable.
NA == "NA"

\* pd.NA in the nullable-integer column "place"; a present integer n is <<n>>.
NoPlace == <<>>

\* None for an optional integer argument; a given integer n is <<n>>.
NoArg == <<>>

SetMin(S) == CHOOSE m \in S : \A x \in S : m <= x

\* ------------------------------------------------------------------------
\* Ranking & obsolescence engine (processing_runs.py)
\* ------------------------------------------------------------------------

\* Bound on the number of rows of the table.
MaxRuns == 3

Levels     == {NA, "l1"}
Categories == {"cA"}
Characters == {"lr36ddwl"}
Players    == {NA, "p1", "p2"}
Notes      == {"qvvz0dwq", "le2v08zl"}
Durations  == {10, 12}

\* A row as it stands after lines 36-60 and 103-104: the normalized columns
\* the ranking reads, place = pd.NA and obsolete = False.
NormalizedRows ==
    [level : Levels, category : Categories, character : Characters,
     player_id : Players, note : Notes, primary_t : Durations,
     obsolete : {FALSE}, place : {NoPlace}]

\* df.groupby(keys) with the default dropna=True: a row with a null in any key
\* belongs to no group.
HasNullKey(row, keys) == \E c \in keys : row[c] = NA

SameKey(r1, r2, keys) == \A c \in keys : r1[c] = r2[c]

\* df.groupby(keys)["primary_t"].transform("min"): the group minimum, NaN
\* (here <<>>) for a row that belongs to no group.
transform_min(frame, keys, i) ==
    IF HasNullKey(frame[i], keys)
    THEN <<>>
    ELSE <<SetMin({frame[j].primary_t :
                     j \in {k \in DOMAIN frame : SameKey(frame[k], frame[i], keys)}})>>

\* Mutant: no run is ever marked obsolete.
mark_obsolete_runs_never(frame, groupby_cols) ==
    [i \in DOMAIN frame |-> [frame[i] EXCEPT !.obsolete = FALSE]]

\* _mark_obsolete_runs: obsolete = (primary_t != best); NaN compares unequal.
mark_obsolete_runs(frame, groupby_cols) ==
    LET keys == groupby_cols \cup {"player_id", "note"}
    IN  [i \in DOMAIN frame |->
            [frame[i] EXCEPT !.obsolete =
                (<<frame[i].primary_t>> # transform_min(frame, keys, i))]]

\* groupby(groupby_cols)["primary_t"].rank(method="min").astype("Int64") over
\* the rows of `mask`.
rank_min(frame, mask, groupby_cols, i) ==
    IF HasNullKey(frame[i], groupby_cols)
    THEN NoPlace
    ELSE <<1 + Cardinality({j \in mask :
                /\ SameKey(frame[j], frame[i], groupby_cols)
                /\ frame[j].primary_t < frame[i].primary_t})>>

\* Mutant: dense ranking (1,1,2) instead of competition ranking (1,1,3).
assign_ranking_dense(frame, groupby_cols) ==
    LET mask == {i \in DOMAIN frame : ~frame[i].obsolete}
    IN  [i \in DOMAIN frame |->
            IF i \in mask
            THEN [frame[i] EXCEPT !.place =
                    IF HasNullKey(frame[i], groupby_cols) THEN NoPlace
                    ELSE <<1 + Cardinality({frame[j].primary_t : j \in
                              {k \in mask :
                                 /\ SameKey(frame[k], frame[i], groupby_cols)
                                 /\ frame[k].primary_t < frame[i].primary_t}})>>]
            ELSE frame[i]]

\* _assign_ranking: only the non-obsolete rows receive a place.
assign_ranking(frame, groupby_cols) ==
    LET mask == {i \in DOMAIN frame : ~frame[i].obsolete}
    IN  [i \in DOMAIN frame |->
            IF i \in mask
            THEN [frame[i] EXCEPT !.place = rank_min(frame, mask, groupby_cols, i)]
            ELSE frame[i]]

\* Mutant: ranking runs on the input flags, before obsolescence is marked.
mark_obsolete_and_place_rank_first(frame, groupby_cols) ==
    LET ranked == assign_ranking(frame, groupby_cols)
        marked == mark_obsolete_runs(frame, groupby_cols)
    IN  [i \in DOMAIN frame |-> [marked[i] EXCEPT !.place = ranked[i].place]]

mark_obsolete_and_place(frame, groupby_cols) ==
    assign_ranking(mark_obsolete_runs(frame, groupby_cols), groupby_cols)

\* df.loc[idx].copy(): the sub-frame keeps the index labels of its rows.
loc_copy(frame, idx) == [i \in idx |-> frame[i]]

\* df.loc[idx, ["obsolete", "place"]] = sub[["obsolete", "place"]]
loc_assign(frame, idx, sub) ==
    [i \in DOMAIN frame |->
        IF i \in idx
        THEN [frame[i] EXCEPT !.obsolete = sub[i].obsolete, !.place = sub[i].place]
        ELSE frame[i]]

LevelCols    == {"level", "category", "character"}
FullGameCols == {"category", "character"}

\* process_runs lines 106-112: the level runs, grouped by level, category
\* and character.
rank_level_runs(frame) ==
    LET lvl_idx == {i \in DOMAIN frame : frame[i].level # NA}
    IN  IF lvl_idx # {}
        THEN loc_assign(frame, lvl_idx,
                mark_obsolete_and_place(loc_copy(frame, lvl_idx), LevelCols))
        ELSE frame

\* Mutant: the full-game pass runs over every row, level runs included.
rank_full_game_runs_unmasked(frame) ==
    loc_assign(frame, DOMAIN frame,
        mark_obsolete_and_place(loc_copy(frame, DOMAIN frame), FullGameCols))

\* process_runs lines 114-120: the full-game runs, grouped by category and
\* character.
rank_full_game_runs(frame) ==
    LET full_game_idx == {i \in DOMAIN frame : frame[i].level = NA}
    IN  IF full_game_idx # {}
        THEN loc_assign(frame, full_game_idx,
                mark_obsolete_and_place(loc_copy(frame, full_game_idx), FullGameCols))
        ELSE frame

\* process_runs lines 102-120 on the normalized table.
RankRuns ==
    /\ rpc = "normalized"
    /\ df' = rank_full_game_runs(rank_level_runs(df))
    /\ rpc' = "done"
    /\ UNCHANGED <<repoVars, fetchVars, collectVars, procVars, dataVars, stampVars, playersVars, normVars>>

\* ------------------------------------------------------------------------
\* Files (io_utils.py)
\* ------------------------------------------------------------------------

\* The content of a path: no file, a file whose bytes are not valid JSON (what
\* a write that failed after open(path, "w") truncated it leaves), or a file
\* holding a JSON value.
AbsentFile  == [state |-> "absent"]
CorruptFile == [state |-> "corrupt"]
JsonFile(v) == [state |-> "json", content |-> v]

\* Mutant: the file is never read.
safe_read_json_always_default(file, default) == default

\* safe_read_json: json.load of the file, `default` when the file is missing
\* or does not parse.
safe_read_json(file, default) ==
    IF file.state = "json" THEN file.content ELSE default

\* How the operating system answers one open-and-write of a file.
\*   "written": the bytes reach the file;
\*   "refused": mkdir/open raises OSError, the file is untouched;
\*   "torn":    open truncated the file, then the write raises OSError.
WriteResults == {"written", "refused", "torn"}

\* with open(path, "w") as f: json.dump(data, f)
write_file(file, data, w) ==
    CASE w = "written" -> JsonFile(data)
      [] w = "refused" -> file
      [] w = "torn"    -> CorruptFile

\* Mutant: the file is opened in append mode, the old list stays in front.
safe_write_json_append(file, data, w) ==
    [ok   |-> (w = "written"),
     file |-> IF w = "written" /\ file.state = "json"
              THEN JsonFile(file.content \o data)
              ELSE write_file(file, data, w)]

\* safe_write_json: True and the new content, or False (OSError swallowed).
safe_write_json(file, data, w) ==
    [ok |-> (w = "written"), file |-> write_file(file, data, w)]

\* ------------------------------------------------------------------------
\* Verified-run repository (fetch_runs.py)
\* ------------------------------------------------------------------------

\* Bound on the length of the list get_all_runs returns.
MaxFetched == 2

RunIds   == {"r1", "r2"}
Statuses == {"verified", "rejected"}
\* The rest of a run's payload: two revisions of the same run differ in it.
Bodies   == {"a", "b"}

RawRuns == [id : RunIds, status : Statuses, body : Bodies]

\* The errors client.get_all_runs can raise (fetch_api_cached's RuntimeError,
\* named here by the transport error it wraps).
CollectErrors == {"ConnectionError", "HTTP 500"}

RECURSIVE SeqsUpTo(_, _)
SeqsUpTo(S, n) ==
    IF n = 0 THEN {<<>>}
    ELSE LET shorter == SeqsUpTo(S, n - 1)
         IN  shorter \cup {Append(q, x) : q \in {p \in shorter : Len(p) = n - 1}, x \in S}

\* What client.get_all_runs(GAME_ID, cache_file=None) does in one call.
CollectResults ==
    [ok : {TRUE}, runs : SeqsUpTo(RawRuns, MaxFetched)]
        \cup [ok : {FALSE}, exc : CollectErrors]

\* Mutant: first writer wins (dict.setdefault).
dict_put_setdefault(d, run) ==
    IF \E k \in DOMAIN d : d[k].id = run.id THEN d ELSE Append(d, run)

\* d[run["id"]] = run on an insertion-ordered dict, kept as the list of its
\* values: a new key goes last, an existing key keeps its position.
dict_put(d, run) ==
    IF \E k \in DOMAIN d : d[k].id = run.id
    THEN [k \in DOMAIN d |-> IF d[k].id = run.id THEN run ELSE d[k]]
    ELSE Append(d, run)

\* Mutant: no merge by identity, the two lists are concatenated.
dict_by_id_concat(runs) == runs

RECURSIVE dict_by_id(_)
\* {run["id"]: run for run in runs}
dict_by_id(runs) ==
    IF runs = <<>> THEN <<>>
    ELSE dict_put(dict_by_id(SubSeq(runs, 1, Len(runs) - 1)), runs[Len(runs)])

is_verified(r) == r.status = "verified"

\* Mutant: the merged set is written back unfiltered.
only_verified_unfiltered(d) == d

\* [r for r in combined.values() if r.get("status", {}).get("status") == "verified"]
only_verified(d) == SelectSeq(d, is_verified)

\* Mutant: a failed fetch is fatal even when the cache can serve.
fetch_outcome_fatal_on_error(existing, verified, exc) ==
    IF exc # NA \/ (verified = <<>> /\ existing = <<>>)
    THEN [kind |-> "raise", error |-> "RuntimeError", context |-> exc]
    ELSE IF verified = <<>> THEN [kind |-> "return", value |-> existing]
    ELSE [kind |-> "return", value |-> verified]

\* Mutant: an empty verified set over a non-empty cache returns the (empty)
\* verified list.
fetch_outcome_return_verified(existing, verified, exc) ==
    IF verified = <<>> /\ existing = <<>>
    THEN [kind |-> "raise", error |-> "RuntimeError", context |-> exc]
    ELSE [kind |-> "return", value |-> verified]

\* Mutant: an empty verified set raises without looking at the cache.
fetch_outcome_ignore_cache(existing, verified, exc) ==
    IF verified = <<>>
    THEN [kind |-> "raise", error |-> "RuntimeError", context |-> exc]
    ELSE [kind |-> "return", value |-> verified]

\* fetch_verified_runs lines 40-49: raise, return the pre-merge cache, or
\* return the verified runs.
fetch_outcome(existing, verified, exc) ==
    IF verified = <<>> /\ existing = <<>>
    THEN [kind |-> "raise", error |-> "RuntimeError", context |-> exc]
    ELSE IF verified = <<>> /\ existing # <<>>
    THEN [kind |-> "return", value |-> existing]
    ELSE [kind |-> "return", value |-> verified]

\* The body of fetch_verified_runs(): `api` is what get_all_runs does, `w`
\* how the write of CACHE_FILE goes.
fetch_verified_runs(api, w) ==
    LET existing == safe_read_json(cacheFile, <<>>)
        fetched  == IF api.ok THEN api.runs ELSE <<>>
        exc      == IF api.ok THEN NA ELSE api.exc
        merged   == dict_by_id(existing \o fetched)
        verified == only_verified(merged)
        written  == safe_write_json(cacheFile, verified, w)
    IN  /\ existing_runs' = existing
        /\ fetched_runs' = fetched
        /\ last_exc' = exc
        /\ combined' = merged
        /\ verified_runs' = verified
        /\ cacheFile' = written.file
        /\ writeOk' = written.ok
        /\ outcome' = fetch_outcome(existing, verified, exc)
        /\ cacheBefore' = cacheFile

\* What a later call can be told about the call that has ended: whether it
\* returned or raised, whether it had verified runs, whether it wrote them.
EndedCall ==
    [kind |-> outcome.kind, fresh |-> (verified_runs # <<>>), written |-> writeOk]

\* One fetch_verified_runs() call.
FetchVerified(api, w) ==
    /\ vpc = "idle"
    /\ vpc' = "ended"
    /\ fetch_verified_runs(api, w)
    /\ once' = [again |-> FALSE]
    /\ UNCHANGED prev
    /\ UNCHANGED <<rankVars, fetchVars, collectVars, procVars, dataVars, stampVars, playersVars, normVars>>

\* The call is made again, and get_all_runs does what it did in the call
\* that has just ended.
FetchVerifiedAgain(w) ==
    /\ vpc = "ended"
    /\ vpc' = "ended"
    /\ fetch_verified_runs(IF last_exc = NA
                           THEN [ok |-> TRUE, runs |-> fetched_runs]
                           ELSE [ok |-> FALSE, exc |-> last_exc], w)
    /\ once' = [again |-> TRUE, file |-> cacheFile, ok |-> writeOk]
    /\ prev' = EndedCall
    /\ UNCHANGED <<rankVars, fetchVars, collectVars, procVars, dataVars, stampVars, playersVars, normVars>>

\* The call's frame is gone: its locals and its result no longer exist, the
\* cache file stays for the next call.
ForgetCall ==
    /\ vpc = "ended"
    /\ vpc' = "idle"
    /\ existing_runs' = <<>>
    /\ fetched_runs' = <<>>
    /\ last_exc' = NA
    /\ combined' = <<>>
    /\ verified_runs' = <<>>
    /\ writeOk' = FALSE
    /\ outcome' = [kind |-> "none"]
    /\ cacheBefore' = cacheFile
    /\ once' = [again |-> FALSE]
    /\ prev' = EndedCall
    /\ UNCHANGED cacheFile
    /\ UNCHANGED <<rankVars, fetchVars, collectVars, procVars, dataVars, stampVars, playersVars, normVars>>

\* ------------------------------------------------------------------------
\* Resilient fetch client (api_utils.py)
\* ------------------------------------------------------------------------

\* Bound on the max_retries argument (the default is 2).
MaxRetriesArg == 2
\* Bound on the delay-seconds a Retry-After header carries.
MaxRetryAfter == 3

BackoffChoices == {1, 2}

\* JSON null, and the values a "data" field holds.
JsonNull   == [json |-> "null"]
DataValues == {[items |-> "pageA"], [items |-> "pageB"], JsonNull}

\* Response bodies: objects with a "data" member, and one object without.
Payloads == {[data |-> d] : d \in DataValues} \cup {[id |-> "u1"]}

\* The Retry-After header of a 429 response: missing, delay-seconds, or text
\* int() rejects (an HTTP-date).
RetryAfterHeaders ==
    {[kind |-> "missing"], [kind |-> "text"]}
        \cup [kind : {"int"}, n : 0..MaxRetryAfter]

\* requests.RequestException: no response (connection error, timeout), or the
\* response raise_for_status() rejected.
RequestExceptions ==
    {[response |-> FALSE]}
        \cup {[response |-> TRUE, status_code |-> 500]}
        \cup [response : {TRUE}, status_code : {429}, retry_after : RetryAfterHeaders]

\* payload.get("data", payload)
payload_get_data(payload) ==
    IF "data" \in DOMAIN payload THEN payload.data ELSE payload

\* int(e.response.headers.get("Retry-After", 1)), 1 when int() raises.
retry_after_seconds(h) ==
    CASE h.kind = "missing" -> 1
      [] h.kind = "int"     -> h.n
      [] h.kind = "text"    -> 1

RECURSIVE Pow2(_)
Pow2(n) == IF n = 0 THEN 1 ELSE 2 * Pow2(n - 1)

\* Mutant: the backoff the docstring announces, exponential in the attempt.
sleep_seconds_exponential(e, backoff, i) ==
    IF e.response /\ e.status_code = 429
    THEN retry_after_seconds(e.retry_after)
    ELSE backoff * Pow2(i)

\* Lines 53-63: the argument of time.sleep after the failed attempt i.
sleep_seconds(e, backoff, i) ==
    IF e.response /\ e.status_code = 429
    THEN retry_after_seconds(e.retry_after)
    ELSE backoff * (i + 1)

\* Mutant: one attempt too many (range(max_retries + 2)).
in_range_one_more(i, retries) == i < retries + 2

\* `for attempt in range(max_retries + 1)`: whether index i is in the range.
in_range(i, retries) == i < retries + 1

\* Mutant: an OSError of the cache write escapes.
on_success_write_raises(payload, cfile, file, w) ==
    LET data == payload_get_data(payload)
    IN  IF cfile # NA /\ data # JsonNull /\ w # "written"
        THEN [result |-> [kind |-> "raise", error |-> "OSError"],
              file   |-> write_file(file, data, w)]
        ELSE [result |-> [kind |-> "return", value |-> data],
              file   |-> IF cfile # NA /\ data # JsonNull
                         THEN write_file(file, data, w) ELSE file]

\* Lines 40-51: extract the data, write the cache file best-effort, return.
on_success(payload, cfile, file, w) ==
    LET data == payload_get_data(payload)
    IN  [result |-> [kind |-> "return", value |-> data],
         file   |-> IF cfile # NA /\ data # JsonNull
                    THEN write_file(file, data, w) ELSE file]

\* One loop iteration whose request succeeds.
AttemptSucceeds(payload, w) ==
    /\ fpc = "request"
    /\ LET done == on_success(payload, cache_file, apiCache, w)
       IN  /\ result' = done.result
           /\ apiCache' = done.file
    /\ responses' = Append(responses, [kind |-> "ok", payload |-> payload, write |-> w])
    /\ fpc' = "returned"
    /\ UNCHANGED <<attempt, max_retries, backoff_sec, cache_file, sleeps, f_last_exc>>
    /\ UNCHANGED <<rankVars, repoVars, collectVars, procVars, dataVars, stampVars, playersVars, normVars>>

\* Mutant: no sleep after the last attempt of the range.
slept_not_after_last(log, e, backoff, i, retries) ==
    IF in_range(i + 1, retries)
    THEN Append(log, sleep_seconds(e, backoff, i))
    ELSE log

\* Lines 53-63: both branches of the except clause call time.sleep once,
\* whatever the index of the attempt; log is the sleeps so far.
slept(log, e, backoff, i, retries) ==
    Append(log, sleep_seconds(e, backoff, i))

\* One loop iteration whose request raises a RequestException: remember it,
\* sleep, go to the next index.
AttemptFails(e) ==
    /\ fpc = "request"
    /\ f_last_exc' = e
    /\ sleeps' = slept(sleeps, e, backoff_sec, attempt, max_retries)
    /\ responses' = Append(responses, [kind |-> "exception", exc |-> e])
    /\ attempt' = attempt + 1
    /\ fpc' = IF in_range(attempt + 1, max_retries) THEN "request" ELSE "exhausted"
    /\ UNCHANGED <<max_retries, backoff_sec, cache_file, apiCache, result>>
    /\ UNCHANGED <<rankVars, repoVars, collectVars, procVars, dataVars, stampVars, playersVars, normVars>>

\* Mutant: the cache file is never read, exhausted retries always raise.
after_loop_no_fallback(cfile, file, exc) ==
    [kind |-> "raise", error |-> "RuntimeError", cause |-> exc]

\* Lines 65-74: after the loop, the content of the cache file if one was
\* supplied, exists and parses, else RuntimeError from last_exc.
after_loop(cfile, file, exc) ==
    IF cfile # NA /\ file.state = "json"
    THEN [kind |-> "return", value |-> file.content]
    ELSE [kind |-> "raise", error |-> "RuntimeError", cause |-> exc]

\* The loop ran out of attempts.
CacheFallback ==
    /\ fpc = "exhausted"
    /\ result' = after_loop(cache_file, apiCache, f_last_exc)
    /\ fpc' = IF result'.kind = "return" THEN "returned" ELSE "raised"
    /\ UNCHANGED <<attempt, max_retries, backoff_sec, cache_file, apiCache,
                   responses, sleeps, f_last_exc>>
    /\ UNCHANGED <<rankVars, repoVars, collectVars, procVars, dataVars, stampVars, playersVars, normVars>>

\* ------------------------------------------------------------------------
\* Paginated collector (api_client.py)
\* ------------------------------------------------------------------------

\* Bounds on the page sizes (argument and client default), on the max_pages
\* argument, on the number of runs the API holds and on the number of
\* get_runs calls followed in one get_all_runs call.
MaxPageSize == 2
MaxPagesArg == 2
MaxUpstream == 3
MaxRequests == 4

\* A page of runs as the API's "data" value: a JSON object around the list
\* (runs are numbered 1..upstream in the API's order).
Page(runs) == [items |-> runs]

\* The API's answer to /runs?game=..&max=m&offset=off when it holds n runs.
api_page(n, off, m) ==
    Page([k \in 1..(IF off + m <= n THEN m ELSE IF off < n THEN n - off ELSE 0)
             |-> off + k])

\* How one fetch_api_cached call goes: a request succeeds, or every
\* attempt fails with `exc` the last error.
FetchCourses == {[ok |-> TRUE]} \cup [ok : {FALSE}, exc : {[response |-> FALSE]}]

\* get_runs line 42: m = max or self.page_size.
used_max(max, self_size) ==
    IF max = NoArg \/ max = <<0>> THEN self_size ELSE max[1]

\* get_runs: fetch_api_cached on the page's URL, from the request that
\* succeeds (lines 40-51) or from the cache fallback (lines 65-74).
get_runs(n, off, max, self_size, cfile, file, net, w) ==
    IF net.ok
    THEN on_success([data |-> api_page(n, off, used_max(max, self_size))],
                    cfile, file, w)
    ELSE [result |-> after_loop(cfile, file, net.exc), file |-> file]

\* Line 106: max_pages is not None and pages_fetched >= int(max_pages).
stop_after_page(pages, max) == max # NoArg /\ pages >= max[1]

\* Line 110: int(page_size) if page_size is not None else self.page_size.
used_page(size, self_size) == IF size # NoArg THEN size[1] ELSE self_size

\* The last n elements of q.
KeepLast(q, n) == IF Len(q) <= n THEN q ELSE SubSeq(q, Len(q) - n + 1, Len(q))

\* What a call followed without a bound on its requests keeps of its
\* growing state. Offsets stop at MaxOffset: the API answers every offset
\* from MaxUpstream on with the empty page. The page count above
\* MaxRequests is kept as MaxRequests or MaxRequests + 1 in turn: line 106
\* compares it with max_pages, which is below MaxRequests. Of all_runs and
\* of the request log the last entries are kept.
MaxOffset == MaxRequests * MaxPageSize
kept_offset(off) == IF off > MaxOffset THEN MaxOffset ELSE off
kept_pages(n)    == IF n > MaxRequests + 1 THEN MaxRequests ELSE n

\* One iteration of `while True` (lines 98-111), the return of line 113
\* included when the loop breaks. With `whole` the call is followed however
\* long it runs, its growing state kept as above; without, for its first
\* MaxRequests requests.
LoopIteration(net, w, whole) ==
    /\ cpc = "request"
    /\ whole \/ Len(requests) < MaxRequests
    /\ LET got   == get_runs(upstream, offset, page_size, self_page_size,
                             runs_cache_file, runsCache, net, w)
           page  == got.result.value
           sent  == [offset |-> offset,
                     max    |-> used_max(page_size, self_page_size),
                     result |-> got.result]
           log   == IF whole THEN KeepLast(Append(requests, sent), MaxRequests)
                    ELSE Append(requests, sent)
           runs  == IF whole THEN KeepLast(all_runs \o page.items, MaxOffset)
                    ELSE all_runs \o page.items
           pages == IF whole THEN kept_pages(pages_fetched + 1) ELSE pages_fetched + 1
           off   == IF whole
                    THEN kept_offset(offset + used_page(page_size, self_page_size))
                    ELSE offset + used_page(page_size, self_page_size)
       IN  /\ runsCache' = got.file
           /\ requests' = log
           /\ IF got.result.kind = "raise"
              THEN /\ cpc' = "raised"
                   /\ collected' = got.result
                   /\ UNCHANGED <<offset, all_runs, pages_fetched>>
              ELSE IF page.items = <<>>
                   THEN /\ cpc' = "returned"
                        /\ collected' = [kind |-> "return", value |-> all_runs]
                        /\ UNCHANGED <<offset, all_runs, pages_fetched>>
                   ELSE /\ all_runs' = runs
                        /\ pages_fetched' = pages
                        /\ IF stop_after_page(pages_fetched + 1, max_pages)
                           THEN /\ cpc' = "returned"
                                /\ collected' = [kind |-> "return", value |-> runs]
                                /\ UNCHANGED offset
                           ELSE /\ cpc' = "request"
                                /\ offset' = off
                                /\ UNCHANGED collected
    /\ UNCHANGED <<self_page_size, page_size, max_pages, runs_cache_file, upstream>>
    /\ UNCHANGED <<rankVars, repoVars, fetchVars, procVars, dataVars, stampVars,
                   playersVars, normVars>>

\* An iteration of a call followed for its first MaxRequests requests.
RequestPage(net, w) == LoopIteration(net, w, FALSE)

\* An iteration of a call followed to its end, if it has one.
RequestPageOn(net, w) == LoopIteration(net, w, TRUE)

\* ------------------------------------------------------------------------
\* Run normalizer & enricher (processing_runs.py lines 62-100, 122-129)
\* ------------------------------------------------------------------------

\* Bound on the number of rows of the table process_runs enriches.
MaxProcRuns == 1

\* The cleaned rows of line 60, with place and obsolete as lines 103-104
\* set them: one category, character, note and duration.
ProcRows ==
    {r \in NormalizedRows : r.note = "qvvz0dwq" /\ r.primary_t = 10}

\* A catalog as the API's "data" value: a list of {id, name} objects.
CategoryCatalog == Page(<<[id |-> "cA", name |-> "Any%"]>>)
LevelCatalog    == Page(<<[id |-> "l1", name |-> "Westopolis"]>>)

\* The "data" values of a catalog response: the catalog, an empty list, null.
CatalogData(catalog) == {catalog, Page(<<>>), JsonNull}

\* A local of process_runs that has not been assigned.
Unset == [unset |-> TRUE]

\* fetch_api_cached(url, cache_file=file): the request that succeeds with
\* `data` (lines 40-51), or the cache fallback (lines 65-74).
fetch_catalog(net, data, cfile, file, w) ==
    IF net.ok
    THEN on_success([data |-> data], cfile, file, w)
    ELSE [result |-> after_loop(cfile, file, net.exc), file |-> file]

\* Mutant: a catalog that cannot be fetched is taken to be empty.
load_catalog_default_empty(fetched, what) ==
    IF fetched.kind = "raise"
    THEN [kind |-> "return", value |-> Page(<<>>)]
    ELSE fetched

\* Lines 65-69 and 71-75: any exception of the fetch becomes
\* RuntimeError("Failed to load <what>") from e.
load_catalog(fetched, what) ==
    IF fetched.kind = "raise"
    THEN [kind |-> "raise", error |-> "RuntimeError",
          message |-> <<"Failed to load", what>>, cause |-> fetched]
    ELSE fetched

\* Lines 62-69: the category catalog.
FetchCategories(net, data, w) ==
    /\ rpc = "catalogs"
    /\ LET got    == fetch_catalog(net, data, "categories.json", categoryCache, w)
           loaded == load_catalog(got.result, "categories")
       IN  /\ categoryCache' = got.file
           /\ catalogFetches' = Append(catalogFetches,
                  [what |-> "categories", ok |-> net.ok, cache |-> categoryCache.state])
           /\ IF loaded.kind = "raise"
              THEN rpc' = "raised" /\ processed' = loaded /\ UNCHANGED categories
              ELSE rpc' = "levels" /\ categories' = loaded.value /\ UNCHANGED processed
    /\ UNCHANGED <<df, levelCache, playerCache, levels, player_map>>
    /\ UNCHANGED <<repoVars, fetchVars, collectVars, dataVars, stampVars, playersVars, normVars>>

\* Lines 71-75: the level catalog.
FetchLevels(net, data, w) ==
    /\ rpc = "levels"
    /\ LET got    == fetch_catalog(net, data, "levels.json", levelCache, w)
           loaded == load_catalog(got.result, "levels")
       IN  /\ levelCache' = got.file
           /\ catalogFetches' = Append(catalogFetches,
                  [what |-> "levels", ok |-> net.ok, cache |-> levelCache.state])
           /\ IF loaded.kind = "raise"
              THEN rpc' = "raised" /\ processed' = loaded /\ UNCHANGED levels
              ELSE rpc' = "names" /\ levels' = loaded.value /\ UNCHANGED processed
    /\ UNCHANGED <<df, categoryCache, playerCache, categories, player_map>>
    /\ UNCHANGED <<repoVars, fetchVars, collectVars, dataVars, stampVars, playersVars, normVars>>

\* {x["id"]: x["name"] for x in catalog} looked up by Series.map: the name
\* of the last entry with that id, NaN when there is none.
name_of(catalog, id) ==
    LET hits == {k \in DOMAIN catalog.items : catalog.items[k].id = id}
    IN  IF hits = {} THEN NA
        ELSE catalog.items[CHOOSE k \in hits : \A m \in hits : m <= k].name

\* constants.py CHAR_MAP and NOTE_MAP looked up by Series.map.
CHAR_MAP(id) ==
    CASE id = "lr36ddwl" -> "Shadow"
      [] id = "1dkonngl" -> "Gun Android"
      [] id = "10v9yypl" -> "Cannon Android"
      [] OTHER -> NA

NOTE_MAP(id) ==
    CASE id = "qvvz0dwq" -> "No SG"
      [] id = "le2v08zl" -> "SG"
      [] OTHER -> NA

\* How the lookup of one user goes: it fails (the fetch raises, or the
\* answer has no "names"), or it delivers names, each of which can be null.
LookupResults ==
    {[ok |-> FALSE],
     [ok |-> TRUE, international |-> "Intl", japanese |-> NA],
     [ok |-> TRUE, international |-> NA, japanese |-> "Jp"],
     [ok |-> TRUE, international |-> NA, japanese |-> NA]}

\* Lines 87-93: names.get("international") or names.get("japanese"), the id
\* itself when the lookup raised.
resolved_name(looked, p_id) ==
    IF ~looked.ok THEN p_id
    ELSE IF looked.international # NA THEN looked.international
    ELSE looked.japanese

\* Lines 82-93: the player cache (a dict, kept as a function) completed with
\* the ids of the table it lacks.
complete_player_map(cached, ids, lookup) ==
    [p \in (DOMAIN cached) \cup ids |->
        IF p \in DOMAIN cached THEN cached[p] ELSE resolved_name(lookup[p], p)]

\* Lines 78-79 and 98-100: the display-name columns.
with_names(row, cats, lvls, pmap) ==
    row @@ [category_name  |-> name_of(cats, row.category),
            level_name     |-> name_of(lvls, row.level),
            player_name    |-> IF row.player_id \in DOMAIN pmap
                               THEN pmap[row.player_id] ELSE NA,
            character_name |-> CHAR_MAP(row.character),
            note_name      |-> NOTE_MAP(row.note)]

\* Lines 78-100: name columns, player lookups, the player cache written
\* back. A catalog that is null cannot be iterated (TypeError, line 78/79).
NamePlayers(lookup, w) ==
    /\ rpc = "names"
    /\ IF categories = JsonNull \/ levels = JsonNull
       THEN /\ rpc' = "raised"
            /\ processed' = [kind |-> "raise", error |-> "TypeError"]
            /\ UNCHANGED <<df, playerCache, player_map>>
       ELSE LET cached == safe_read_json(playerCache, <<>>)
                ids    == {df[i].player_id : i \in DOMAIN df} \ {NA}
                pmap   == complete_player_map(cached, ids, lookup)
            IN  /\ player_map' = pmap
                /\ playerCache' = safe_write_json(playerCache, pmap, w).file
                /\ df' = [i \in DOMAIN df |-> with_names(df[i], categories, levels, pmap)]
                /\ rpc' = "normalized"
                /\ UNCHANGED processed
    /\ UNCHANGED <<categoryCache, levelCache, categories, levels, catalogFetches>>
    /\ UNCHANGED <<repoVars, fetchVars, collectVars, dataVars, stampVars, playersVars, normVars>>

\* Bound on the number of process_runs calls followed over one player cache.
MaxProcessRuns == 3

\* Mutant: every id of the table is looked up, cached or not.
ids_to_look_up_all(cached, ids) == ids

\* Line 84, `if p_id not in player_map`: the ids a lookup is made for.
ids_to_look_up(cached, ids) == ids \ DOMAIN cached

\* The ids among those looked up whose lookup raised.
FailedNow == {p \in looked_up : ~answers[p].ok}

\* Lines 81-95 of one process_runs call whose table holds the player ids
\* `ids`: the cache read, the missing ids looked up, the cache written back.
ResolvePlayers(ids, lookup, w) ==
    /\ runNo < MaxProcessRuns
    /\ rpc = "players"
    /\ LET cached == safe_read_json(playerCache, <<>>)
           pmap   == complete_player_map(cached, ids, lookup)
       IN  /\ looked_up' = ids_to_look_up(cached, ids)
           /\ answers' = [p \in ids_to_look_up(cached, ids) |-> lookup[p]]
           /\ player_map' = pmap
           /\ playerCache' = safe_write_json(playerCache, pmap, w).file
    /\ runNo' = runNo + 1
    /\ input_ids' = ids
    /\ cacheAtStart' = playerCache
    /\ playerWrite' = w
    /\ failedBefore' = failedBefore \cup FailedNow
    /\ writtenBefore' = (writtenBefore /\ (runNo = 0 \/ playerWrite = "written"))
    /\ UNCHANGED <<df, rpc, categoryCache, levelCache, categories, levels,
                   catalogFetches, processed>>
    /\ UNCHANGED <<repoVars, fetchVars, collectVars, dataVars, stampVars, normVars>>

\* df.drop(columns=[...]) of line 123.
drop_id_columns(row) ==
    [c \in (DOMAIN row) \ {"category", "level", "player_id", "character", "note"}
        |-> row[c]]

\* Lines 122-129: the id columns dropped, the table returned.
ReturnTable ==
    /\ rpc = "done"
    /\ rpc' = "returned"
    /\ df' = [i \in DOMAIN df |-> drop_id_columns(df[i])]
    /\ processed' = [kind |-> "return"]
    /\ UNCHANGED <<categoryCache, levelCache, playerCache, categories, levels,
                   player_map, catalogFetches>>
    /\ UNCHANGED <<repoVars, fetchVars, collectVars, dataVars, stampVars, playersVars, normVars>>

\* ------------------------------------------------------------------------
\* Snapshot and refresh clock (data_io.py, io_utils.py)
\* ------------------------------------------------------------------------

COOLDOWN_SECONDS == 7200

\* Bound on the number of clock advances followed.
MaxTicks == 4

\* The clock advances between calls by a second or by a second less than
\* the cooldown (so that 7199, 7200 and 7201 seconds all occur).
TickSteps == {1, COOLDOWN_SECONDS - 1}

\* The processed tables a pipeline run can deliver.
Tables == {"dfA", "dfB"}

\* How process_runs() goes: it returns a table or raises.
PipelineResults ==
    [ok : {TRUE}, table : Tables]
        \cup [ok : {FALSE}, error : {"NoVerifiedRuns", "CatalogUnavailable", "KeyError"}]

CsvFile(t) == [state |-> "csv", content |-> t]

\* io_utils.get_global_last_refresh: the stored epoch seconds, None when
\* the file is missing, unreadable, or holds no number.
get_global_last_refresh(file) ==
    IF file.state = "json" THEN file.content.last_refresh ELSE NoArg

\* io_utils.set_global_last_refresh: the file is replaced as a whole, or
\* left as it was when anything fails (False returned, nothing raised).
set_global_last_refresh(file, ts, w) ==
    [ok   |-> (w = "written"),
     file |-> IF w = "written" THEN JsonFile([last_refresh |-> <<ts>>]) ELSE file]

\* `get_global_last_refresh() or 0`
or_zero(x) == IF x = NoArg THEN 0 ELSE x[1]

\* Line 49.
cooldown_remaining(t, last) == COOLDOWN_SECONDS - (t - last)

\* Mutant: a forced refresh is never held back.
in_cooldown_never(force, remaining, file) == FALSE

\* Line 52: force_refresh and cooldown_remaining > 0 and DATA_FILE.exists().
in_cooldown(force, remaining, file) ==
    force /\ remaining > 0 /\ file.state # "absent"

\* pd.read_csv(DATA_FILE): the table, or the error of an unreadable file.
read_csv(file) ==
    IF file.state = "csv"
    THEN [kind |-> "return", value |-> file.content]
    ELSE [kind |-> "raise", error |-> "read_csv"]

\* load_and_cache: process_runs(), then df.to_csv(DATA_FILE); an error of
\* either propagates, a failed write can leave a truncated file.
load_and_cache(pipe, file, w) ==
    IF ~pipe.ok
    THEN [result |-> [kind |-> "raise", error |-> pipe.error], file |-> file]
    ELSE IF w = "written"
    THEN [result |-> [kind |-> "return", value |-> pipe.table],
          file   |-> CsvFile(pipe.table)]
    ELSE [result |-> [kind |-> "raise", error |-> "OSError"],
          file   |-> IF w = "torn" THEN CorruptFile ELSE file]

\* Mutant: the timestamp is persisted before the pipeline runs.
stamp_after_stamp_first(loaded, file, ts, w) == set_global_last_refresh(file, ts, w)

\* Lines 74-80: set_global_last_refresh(now) is reached only when
\* load_and_cache() returned.
stamp_after(loaded, file, ts, w) ==
    IF loaded.kind = "return"
    THEN set_global_last_refresh(file, ts, w)
    ELSE [ok |-> FALSE, file |-> file]

\* One get_data(force_refresh) call.
GetData(force, pipe, w, wts) ==
    LET t       == clock
        last    == or_zero(get_global_last_refresh(refreshFile))
        remain  == cooldown_remaining(t, last)
        held    == in_cooldown(force, remain, dataFile)
        runs    == ~held /\ (force \/ dataFile.state = "absent")
        loaded  == load_and_cache(pipe, dataFile, w)
        stamp   == stamp_after(loaded.result, refreshFile, t, wts)
    IN  /\ dpc' = "ended"
        /\ force_refresh' = force
        /\ now' = t
        /\ last_refresh' = last
        /\ refreshBefore' = refreshFile
        /\ dataBefore' = dataFile
        /\ wasRetry' = retrying
        /\ ran' = runs
        /\ IF runs
           THEN /\ dataFile' = loaded.file
                /\ refreshFile' = stamp.file
                /\ stamped' = stamp.ok
                /\ returned' = loaded.result
                /\ lastSuccess' = IF loaded.result.kind = "return" THEN <<t>> ELSE lastSuccess
                /\ retrying' = (loaded.result.kind = "raise")
           ELSE /\ returned' = read_csv(dataFile)
                /\ stamped' = FALSE
                /\ UNCHANGED <<dataFile, refreshFile, lastSuccess, retrying>>
        /\ UNCHANGED <<clock, ticks>>
        /\ UNCHANGED <<rankVars, repoVars, fetchVars, collectVars, procVars, stampVars, playersVars, normVars>>

\* Time passes between calls.
Tick(d) ==
    /\ ticks < MaxTicks
    /\ ticks' = ticks + 1
    /\ clock' = clock + d
    /\ UNCHANGED <<refreshFile, dataFile, dpc, force_refresh, now, last_refresh,
                   ran, stamped, returned, refreshBefore, dataBefore,
                   lastSuccess, retrying, wasRetry>>
    /\ UNCHANGED <<rankVars, repoVars, fetchVars, collectVars, procVars, stampVars, playersVars, normVars>>

\* ------------------------------------------------------------------------
\* The timestamp file, step by step (io_utils.py lines 76-99)
\* ------------------------------------------------------------------------

\* Bound on the number of set_global_last_refresh calls followed; the k-th
\* call stamps the time k.
MaxStamps == 2

\* json.dump({"last_refresh": ts}, f) as a complete file.
StampFile(t) == JsonFile([last_refresh |-> <<t>>])

\* open(tmp, "w"): the file is created or truncated to zero bytes, which is
\* not JSON; when open raises, the file is as it was.
open_w(file, ok) == IF ok THEN CorruptFile ELSE file

\* Lines 86-87: json.dump and the close of the with block; a failure leaves
\* part of the text in the file.
json_dump(t, w) == IF w = "written" THEN StampFile(t) ELSE CorruptFile

\* Mutant: the new content is copied over the target in place, so a failure
\* leaves the target cut short.
os_replace_in_place(src, dst, ok) ==
    IF ok THEN [src |-> AbsentFile, dst |-> src]
    ELSE [src |-> src, dst |-> CorruptFile]

\* Line 89, os.replace(tmp, LAST_REFRESH_FILE): the rename happens as a
\* whole or not at all.
os_replace(src, dst, ok) ==
    IF ok THEN [src |-> AbsentFile, dst |-> src]
    ELSE [src |-> src, dst |-> dst]

\* Lines 95-96: `if tmp.exists(): tmp.unlink()`, what became of the cleanup
\* and of the file; ok tells whether unlink succeeds.
unlink_if_exists(file, ok) ==
    IF file = AbsentFile THEN [how |-> "absent", file |-> file]
    ELSE IF ok THEN [how |-> "removed", file |-> AbsentFile]
    ELSE [how |-> "failed", file |-> file]

\* set_global_last_refresh(t) is called (line 83).
StampCall(t) ==
    /\ spc \in {"idle", "returned"}
    /\ t = stamp_ts + 1
    /\ t <= MaxStamps
    /\ stamp_ts' = t
    /\ targetBefore' = lastRefreshFile
    /\ stampResult' = [kind |-> "none"]
    /\ failedAt' = "none"
    /\ cleanup' = "none"
    /\ spc' = "mkdir"
    /\ UNCHANGED <<lastRefreshFile, tmpFile>>
    /\ UNCHANGED <<rankVars, repoVars, fetchVars, collectVars, procVars, dataVars, playersVars, normVars>>

\* Line 85: tmp.parent.mkdir(parents=True, exist_ok=True).
Mkdir(ok) ==
    /\ spc = "mkdir"
    /\ spc' = IF ok THEN "open" ELSE "except"
    /\ failedAt' = IF ok THEN "none" ELSE "mkdir"
    /\ UNCHANGED <<lastRefreshFile, tmpFile, stamp_ts, stampResult, targetBefore, cleanup>>
    /\ UNCHANGED <<rankVars, repoVars, fetchVars, collectVars, procVars, dataVars, playersVars, normVars>>

\* Line 86: open(tmp, "w").
OpenTmp(ok) ==
    /\ spc = "open"
    /\ tmpFile' = open_w(tmpFile, ok)
    /\ spc' = IF ok THEN "dump" ELSE "except"
    /\ failedAt' = IF ok THEN "none" ELSE "open"
    /\ UNCHANGED <<lastRefreshFile, stamp_ts, stampResult, targetBefore, cleanup>>
    /\ UNCHANGED <<rankVars, repoVars, fetchVars, collectVars, procVars, dataVars, playersVars, normVars>>

\* Lines 86-87: the body and the exit of the with block.
JsonDump(w) ==
    /\ spc = "dump"
    /\ tmpFile' = json_dump(stamp_ts, w)
    /\ spc' = IF w = "written" THEN "replace" ELSE "except"
    /\ failedAt' = IF w = "written" THEN "none" ELSE "dump"
    /\ UNCHANGED <<lastRefreshFile, stamp_ts, stampResult, targetBefore, cleanup>>
    /\ UNCHANGED <<rankVars, repoVars, fetchVars, collectVars, procVars, dataVars, playersVars, normVars>>

\* Lines 89-90: os.replace, then return True.
OsReplace(ok) ==
    /\ spc = "replace"
    /\ LET moved == os_replace(tmpFile, lastRefreshFile, ok)
       IN  /\ tmpFile' = moved.src
           /\ lastRefreshFile' = moved.dst
    /\ spc' = IF ok THEN "returned" ELSE "except"
    /\ stampResult' = IF ok THEN [kind |-> "return", value |-> TRUE] ELSE stampResult
    /\ failedAt' = IF ok THEN "none" ELSE "replace"
    /\ UNCHANGED <<stamp_ts, targetBefore, cleanup>>
    /\ UNCHANGED <<rankVars, repoVars, fetchVars, collectVars, procVars, dataVars, playersVars, normVars>>

\* Lines 92-99: the except clause; log, remove tmp if it is there (an error
\* of the removal is logged and swallowed), return False.
ExceptClause(ok) ==
    /\ spc = "except"
    /\ LET gone == unlink_if_exists(tmpFile, ok)
       IN  /\ tmpFile' = gone.file
           /\ cleanup' = gone.how
    /\ stampResult' = [kind |-> "return", value |-> FALSE]
    /\ spc' = "returned"
    /\ UNCHANGED <<lastRefreshFile, stamp_ts, targetBefore, failedAt>>
    /\ UNCHANGED <<rankVars, repoVars, fetchVars, collectVars, procVars, dataVars, playersVars, normVars>>

\* ------------------------------------------------------------------------
\* Run normalization (processing_runs.py lines 36-60)
\* ------------------------------------------------------------------------

\* Bound on the number of raw runs normalized in one call.
MaxRawRuns == 2

NOTE_KEY      == "68kwme38"
CHARACTER_KEY == "38dgox08"

\* A raw run of the API with every member the normalization reads; JSON
\* lists are Pages, a JSON object is a function of its keys.
FullRun(id) ==
    [id        |-> id,
     weblink   |-> "https://www.speedrun.com/run/x",
     category  |-> "cA",
     level     |-> "l1",
     players   |-> Page(<<[id |-> "p1"]>>),
     date      |-> "2024-01-01",
     times     |-> [primary_t |-> 10],
     values    |-> (NOTE_KEY :> "qvvz0dwq") @@ (CHARACTER_KEY :> "lr36ddwl"),
     submitted |-> "2024-01-02T00:00:00Z"]

\* Object o without its member k.
Without(o, k) == [c \in (DOMAIN o) \ {k} |-> o[c]]

\* The raw runs of id `id`: the full one; one for each member left out, at
\* the top or inside "times" and "values"; a null level; players null,
\* empty, or led by a guest (who has a name and no id).
ApiRuns(id) ==
    {FullRun(id)}
        \cup {Without(FullRun(id), k) : k \in DOMAIN FullRun(id)}
        \cup {[FullRun(id) EXCEPT !.times = <<>>]}
        \cup {[FullRun(id) EXCEPT !.values = Without(@, k)] : k \in {NOTE_KEY, CHARACTER_KEY}}
        \cup {[FullRun(id) EXCEPT !.level = NA]}
        \cup {[FullRun(id) EXCEPT !.players = v] :
                 v \in {JsonNull, Page(<<>>), Page(<<[name |-> "Guest"]>>)}}

\* The ids of the runs of a list, by position.
RawIds == <<"r1", "r2", "r3">>

\* The lists of n raw runs with distinct ids.
RECURSIVE ApiRunLists(_)
ApiRunLists(n) ==
    IF n = 0 THEN {<<>>}
    ELSE {Append(q, x) : q \in ApiRunLists(n - 1), x \in ApiRuns(RawIds[n])}

\* o.get(k): None when the member is missing.
dict_get(o, k) == IF k \in DOMAIN o THEN o[k] ELSE NA

\* Lines 38-43: players = run.get("players") or []; the id of the first.
first_player_id(run) ==
    IF "players" \notin DOMAIN run THEN NA
    ELSE IF run.players \in {JsonNull, Page(<<>>)} THEN NA
    ELSE dict_get(run.players.items[1], "id")

\* The subscriptions of lines 47-56 in the order Python evaluates them,
\* as <<container, key>> paths.
Subscripts ==
    << <<"run", "id">>, <<"run", "weblink">>, <<"run", "category">>,
       <<"run", "date">>, <<"run", "times">>, <<"times", "primary_t">>,
       <<"run", "values">>, <<"values", NOTE_KEY>>, <<"run", "values">>,
       <<"values", CHARACTER_KEY>>, <<"run", "submitted">> >>

\* Whether the subscription finds its key.
Subscribes(run, path) ==
    IF path[1] = "run" THEN path[2] \in DOMAIN run
    ELSE path[2] \in DOMAIN run[path[1]]

\* The index of the first subscription that raises KeyError, 0 if none.
RECURSIVE first_key_error(_, _)
first_key_error(run, i) ==
    IF i > Len(Subscripts) THEN 0
    ELSE IF ~Subscribes(run, Subscripts[i]) THEN i
    ELSE first_key_error(run, i + 1)

\* Mutant: every member is read with .get, a missing one becomes None.
clean_run_lenient(run) ==
    LET times  == IF "times" \in DOMAIN run THEN run.times ELSE <<>>
        values == IF "values" \in DOMAIN run THEN run.values ELSE <<>>
    IN  [kind |-> "row",
         row  |-> [id        |-> dict_get(run, "id"),
                   weblink   |-> dict_get(run, "weblink"),
                   category  |-> dict_get(run, "category"),
                   level     |-> dict_get(run, "level"),
                   player_id |-> first_player_id(run),
                   date      |-> dict_get(run, "date"),
                   primary_t |-> dict_get(times, "primary_t"),
                   note      |-> dict_get(values, NOTE_KEY),
                   character |-> dict_get(values, CHARACTER_KEY),
                   submitted |-> dict_get(run, "submitted")]]

\* Lines 38-57 for one run: the row, or the KeyError of the first member
\* that is missing.
clean_run(run) ==
    LET bad == first_key_error(run, 1)
    IN  IF bad # 0
        THEN [kind |-> "raise", error |-> "KeyError", key |-> Subscripts[bad][2]]
        ELSE [kind |-> "row",
              row  |-> [id        |-> run.id,
                        weblink   |-> run.weblink,
                        category  |-> run.category,
                        level     |-> dict_get(run, "level"),
                        player_id |-> first_player_id(run),
                        date      |-> run.date,
                        primary_t |-> run.times.primary_t,
                        note      |-> run.values[NOTE_KEY],
                        character |-> run.values[CHARACTER_KEY],
                        submitted |-> run.submitted]]

\* Lines 36-60: the loop over verified_runs; the first KeyError leaves
\* process_runs, which catches nothing here.
CleanRuns ==
    /\ npc = "clean"
    /\ LET rows == [i \in DOMAIN runs_in |-> clean_run(runs_in[i])]
           bad  == {i \in DOMAIN rows : rows[i].kind = "raise"}
       IN  IF bad # {}
           THEN /\ npc' = "raised"
                /\ norm_error' = rows[CHOOSE i \in bad : \A j \in bad : i <= j]
                /\ UNCHANGED cleaned_runs
           ELSE /\ npc' = "cleaned"
                /\ cleaned_runs' = [i \in DOMAIN rows |-> rows[i].row]
                /\ UNCHANGED norm_error
    /\ UNCHANGED runs_in
    /\ UNCHANGED <<rankVars, repoVars, fetchVars, collectVars, procVars, dataVars,
                   stampVars, playersVars>>

\* ------------------------------------------------------------------------
\* Specifications
\* ------------------------------------------------------------------------

RankIdle ==
    /\ df = <<>>
    /\ rpc = "idle"

ProcIdle ==
    /\ categoryCache = AbsentFile
    /\ levelCache = AbsentFile
    /\ playerCache = AbsentFile
    /\ categories = Unset
    /\ levels = Unset
    /\ player_map = <<>>
    /\ catalogFetches = <<>>
    /\ processed = [kind |-> "none"]

DataIdle ==
    /\ clock = 0
    /\ ticks = 0
    /\ refreshFile = AbsentFile
    /\ dataFile = AbsentFile
    /\ dpc = "idle"
    /\ force_refresh = FALSE
    /\ now = 0
    /\ last_refresh = 0
    /\ ran = FALSE
    /\ stamped = FALSE
    /\ returned = [kind |-> "none"]
    /\ refreshBefore = AbsentFile
    /\ dataBefore = AbsentFile
    /\ lastSuccess = NoArg
    /\ retrying = FALSE
    /\ wasRetry = FALSE

StampIdle ==
    /\ spc = "idle"
    /\ lastRefreshFile = AbsentFile
    /\ tmpFile = AbsentFile
    /\ stamp_ts = 0
    /\ stampResult = [kind |-> "none"]
    /\ targetBefore = AbsentFile
    /\ failedAt = "none"
    /\ cleanup = "none"

PlayersIdle ==
    /\ runNo = 0
    /\ input_ids = {}
    /\ looked_up = {}
    /\ answers = <<>>
    /\ cacheAtStart = AbsentFile
    /\ playerWrite = "none"
    /\ failedBefore = {}
    /\ writtenBefore = TRUE

NormIdle ==
    /\ npc = "idle"
    /\ runs_in = <<>>
    /\ cleaned_runs = <<>>
    /\ norm_error = [kind |-> "none"]

RepoIdle ==
    /\ vpc = "idle"
    /\ cacheFile = AbsentFile
    /\ existing_runs = <<>>
    /\ fetched_runs = <<>>
    /\ last_exc = NA
    /\ combined = <<>>
    /\ verified_runs = <<>>
    /\ writeOk = FALSE
    /\ outcome = [kind |-> "none"]
    /\ cacheBefore = AbsentFile
    /\ once = [again |-> FALSE]
    /\ prev = [kind |-> "none"]

FetchIdle ==
    /\ fpc = "idle"
    /\ attempt = 0
    /\ max_retries = 0
    /\ backoff_sec = 0
    /\ cache_file = NA
    /\ apiCache = AbsentFile
    /\ responses = <<>>
    /\ sleeps = <<>>
    /\ f_last_exc = NA
    /\ result = [kind |-> "none"]

CollectIdle ==
    /\ cpc = "idle"
    /\ self_page_size = 0
    /\ page_size = NoArg
    /\ max_pages = NoArg
    /\ runs_cache_file = NA
    /\ runsCache = AbsentFile
    /\ upstream = 0
    /\ offset = 0
    /\ all_runs = <<>>
    /\ pages_fetched = 0
    /\ requests = <<>>
    /\ collected = [kind |-> "none"]

\* Every table of at least one and at most MaxRuns normalized rows
\* (fetch_verified_runs never returns an empty list), ranking not yet run.
InitRank ==
    /\ df \in SeqsUpTo(NormalizedRows, MaxRuns) \ {<<>>}
    /\ rpc = "normalized"
    /\ RepoIdle
    /\ FetchIdle
    /\ CollectIdle
    /\ ProcIdle
    /\ DataIdle
    /\ StampIdle
    /\ PlayersIdle
    /\ NormIdle

NextRank == RankRuns

SpecRank == InitRank /\ [][NextRank]_vars

\* No cache file yet, no call made.
InitRepo ==
    /\ RepoIdle
    /\ RankIdle
    /\ FetchIdle
    /\ CollectIdle
    /\ ProcIdle
    /\ DataIdle
    /\ StampIdle
    /\ PlayersIdle
    /\ NormIdle

NextRepo ==
    \/ \E api \in CollectResults, w \in WriteResults : FetchVerified(api, w)
    \/ \E w \in WriteResults : FetchVerifiedAgain(w)
    \/ ForgetCall

SpecRepo == InitRepo /\ [][NextRepo]_vars

\* The cache files fetch_api_cached can find: none, an unreadable one, or
\* one holding what an earlier successful call wrote.
ApiCacheFiles ==
    {AbsentFile, CorruptFile}
        \cup {JsonFile(payload_get_data(p)) : p \in {q \in Payloads : payload_get_data(q) # JsonNull}}

\* A call fetch_api_cached(url, cache_file, max_retries=..., backoff_sec=...)
\* about to enter its loop.
InitFetch ==
    /\ max_retries \in 0..MaxRetriesArg
    /\ backoff_sec \in BackoffChoices
    /\ cache_file \in {NA, "cache.json"}
    /\ apiCache \in IF cache_file = NA THEN {AbsentFile} ELSE ApiCacheFiles
    /\ attempt = 0
    /\ fpc = "request"
    /\ responses = <<>>
    /\ sleeps = <<>>
    /\ f_last_exc = NA
    /\ result = [kind |-> "none"]
    /\ RankIdle
    /\ RepoIdle
    /\ CollectIdle
    /\ ProcIdle
    /\ DataIdle
    /\ StampIdle
    /\ PlayersIdle
    /\ NormIdle

NextFetch ==
    \/ \E payload \in Payloads, w \in WriteResults : AttemptSucceeds(payload, w)
    \/ \E e \in RequestExceptions : AttemptFails(e)
    \/ CacheFallback

SpecFetch == InitFetch /\ [][NextFetch]_vars

\* The cache files get_all_runs can find at its cache_file path: none, an
\* unreadable one, or a page an earlier request wrote.
RunsCacheFiles ==
    {AbsentFile, CorruptFile, JsonFile(Page(<<>>)), JsonFile(Page(<<1>>))}

\* A call client.get_all_runs(game_id, cache_file, max_pages, page_size)
\* about to enter its loop (line 95).
InitCollect ==
    /\ self_page_size \in 1..MaxPageSize
    /\ page_size \in {NoArg} \cup {<<n>> : n \in 0..MaxPageSize}
    /\ max_pages \in {NoArg} \cup {<<n>> : n \in 0..MaxPagesArg}
    /\ runs_cache_file \in {NA, "runs.json"}
    /\ runsCache \in IF runs_cache_file = NA THEN {AbsentFile} ELSE RunsCacheFiles
    /\ upstream \in 0..MaxUpstream
    /\ offset = 0
    /\ all_runs = <<>>
    /\ pages_fetched = 0
    /\ requests = <<>>
    /\ collected = [kind |-> "none"]
    /\ cpc = "request"
    /\ RankIdle
    /\ RepoIdle
    /\ FetchIdle
    /\ ProcIdle
    /\ DataIdle
    /\ StampIdle
    /\ PlayersIdle
    /\ NormIdle

NextCollect == \E net \in FetchCourses, w \in WriteResults : RequestPage(net, w)

SpecCollect == InitCollect /\ [][NextCollect]_vars

NextCollectOn == \E net \in FetchCourses, w \in WriteResults : RequestPageOn(net, w)

\* The same call followed to its end under the scheduling of a running
\* interpreter: the loop of lines 97-111 takes its next iteration as long
\* as it has one.
SpecCollectLive == InitCollect /\ [][NextCollectOn]_vars /\ WF_vars(NextCollectOn)

\* The catalog cache files process_runs can find: none, an unreadable one,
\* or the catalog an earlier run fetched; and the player cache files.
CatalogCacheFiles(catalog) == {AbsentFile, CorruptFile, JsonFile(catalog)}
PlayerCacheFiles ==
    {AbsentFile, JsonFile([p \in {"p1"} |-> "Cached"])}

\* process_runs at line 62: fetch_verified_runs has returned (a non-empty
\* list) and the rows are cleaned.
InitProc ==
    /\ df \in SeqsUpTo(ProcRows, MaxProcRuns) \ {<<>>}
    /\ rpc = "catalogs"
    /\ categoryCache \in CatalogCacheFiles(CategoryCatalog)
    /\ levelCache \in CatalogCacheFiles(LevelCatalog)
    /\ playerCache \in PlayerCacheFiles
    /\ categories = Unset
    /\ levels = Unset
    /\ player_map = <<>>
    /\ catalogFetches = <<>>
    /\ processed = [kind |-> "none"]
    /\ RepoIdle
    /\ FetchIdle
    /\ CollectIdle
    /\ DataIdle
    /\ StampIdle
    /\ PlayersIdle
    /\ NormIdle

NextProc ==
    \/ \E net \in FetchCourses, data \in CatalogData(CategoryCatalog), w \in WriteResults :
          FetchCategories(net, data, w)
    \/ \E net \in FetchCourses, data \in CatalogData(LevelCatalog), w \in WriteResults :
          FetchLevels(net, data, w)
    \/ \E lookup \in [Players \ {NA} -> LookupResults], w \in WriteResults :
          NamePlayers(lookup, w)
    \/ RankRuns
    \/ ReturnTable

SpecProc == InitProc /\ [][NextProc]_vars

\* A player cache file and no process_runs call yet; each call reaches
\* line 81 with the player ids of its table.
InitPlayers ==
    /\ df = <<>>
    /\ rpc = "players"
    /\ categoryCache = AbsentFile
    /\ levelCache = AbsentFile
    /\ playerCache \in PlayerCacheFiles \cup {CorruptFile}
    /\ categories = Unset
    /\ levels = Unset
    /\ player_map = <<>>
    /\ catalogFetches = <<>>
    /\ processed = [kind |-> "none"]
    /\ runNo = 0
    /\ input_ids = {}
    /\ looked_up = {}
    /\ answers = <<>>
    /\ cacheAtStart = playerCache
    /\ playerWrite = "none"
    /\ failedBefore = {}
    /\ writtenBefore = TRUE
    /\ RepoIdle
    /\ FetchIdle
    /\ CollectIdle
    /\ DataIdle
    /\ StampIdle
    /\ NormIdle

NextPlayers ==
    \E ids \in SUBSET (Players \ {NA}), lookup \in [Players \ {NA} -> LookupResults],
       w \in WriteResults :
          ResolvePlayers(ids, lookup, w)

SpecPlayers == InitPlayers /\ [][NextPlayers]_vars

\* process_runs at line 36: fetch_verified_runs has returned a non-empty
\* list of raw runs with distinct ids (it keys them by id).
InitNorm ==
    /\ runs_in \in UNION {ApiRunLists(n) : n \in 1..MaxRawRuns}
    /\ npc = "clean"
    /\ cleaned_runs = <<>>
    /\ norm_error = [kind |-> "none"]
    /\ RankIdle
    /\ RepoIdle
    /\ FetchIdle
    /\ CollectIdle
    /\ ProcIdle
    /\ DataIdle
    /\ StampIdle
    /\ PlayersIdle

NextNorm == CleanRuns

SpecNorm == InitNorm /\ [][NextNorm]_vars

\* The timestamp files a first get_data call can find: none, an unreadable
\* one, one whose "last_refresh" is null.
RefreshFiles ==
    {AbsentFile, CorruptFile, JsonFile([last_refresh |-> NoArg])}

\* A fresh installation: no snapshot, no usable timestamp; the clock shows
\* an epoch time (not below the cooldown interval).
InitData ==
    /\ clock = COOLDOWN_SECONDS
    /\ ticks = 0
    /\ refreshFile \in RefreshFiles
    /\ dataFile = AbsentFile
    /\ dpc = "idle"
    /\ force_refresh = FALSE
    /\ now = 0
    /\ last_refresh = 0
    /\ ran = FALSE
    /\ stamped = FALSE
    /\ returned = [kind |-> "none"]
    /\ refreshBefore = refreshFile
    /\ dataBefore = AbsentFile
    /\ lastSuccess = NoArg
    /\ retrying = FALSE
    /\ wasRetry = FALSE
    /\ RankIdle
    /\ RepoIdle
    /\ FetchIdle
    /\ CollectIdle
    /\ ProcIdle
    /\ StampIdle
    /\ PlayersIdle
    /\ NormIdle

NextData ==
    \/ \E force \in BOOLEAN, pipe \in PipelineResults, w, wts \in WriteResults :
          GetData(force, pipe, w, wts)
    \/ \E d \in TickSteps : Tick(d)

SpecData == InitData /\ [][NextData]_vars

\* No call of set_global_last_refresh yet: the timestamp file is one a
\* first get_data call can find, there is no temporary file.
InitStamp ==
    /\ spc = "idle"
    /\ lastRefreshFile \in RefreshFiles
    /\ tmpFile = AbsentFile
    /\ stamp_ts = 0
    /\ stampResult = [kind |-> "none"]
    /\ targetBefore = lastRefreshFile
    /\ failedAt = "none"
    /\ cleanup = "none"
    /\ RankIdle
    /\ RepoIdle
    /\ FetchIdle
    /\ CollectIdle
    /\ ProcIdle
    /\ DataIdle
    /\ PlayersIdle
    /\ NormIdle

NextStamp ==
    \/ \E t \in 1..MaxStamps : StampCall(t)
    \/ \E ok \in BOOLEAN : Mkdir(ok)
    \/ \E ok \in BOOLEAN : OpenTmp(ok)
    \/ \E w \in {"written", "torn"} : JsonDump(w)
    \/ \E ok \in BOOLEAN : OsReplace(ok)
    \/ \E ok \in BOOLEAN : ExceptClause(ok)

SpecStamp == InitStamp /\ [][NextStamp]_vars

\* ------------------------------------------------------------------------
\* Claims: ranking & obsolescence (SpecRank)
\* ------------------------------------------------------------------------

\* The ranking group of a row: level, category and character, where two
\* absent levels are the same (full-game) group key.
SameGroup(r1, r2) == SameKey(r1, r2, {"level", "category", "character"})

\* The player-note cohort of a row: group, player and note.
SameCohort(r1, r2) == SameGroup(r1, r2) /\ SameKey(r1, r2, {"player_id", "note"})

CohortMin(i) ==
    SetMin({df[j].primary_t : j \in {k \in DOMAIN df : SameCohort(df[k], df[i])}})

\* C1 (as claimed): after rank(), a record is non-obsolete if and only if its
\* duration equals the minimum duration over its player-note cohort, for
\* every set of records, attributed player absent included.
C1_ObsolescenceRule ==
    rpc = "done" =>
        \A i \in DOMAIN df : (~df[i].obsolete) <=> (df[i].primary_t = CohortMin(i))

\* C2: the place of every non-obsolete record is 1 + the number of
\* non-obsolete records of its group with a strictly smaller duration
\* (competition ranking: ties share a place, the next place skips).
C2_CompetitionRanking ==
    rpc = "done" =>
        \A i \in DOMAIN df :
            ~df[i].obsolete =>
                df[i].place =
                    <<1 + Cardinality({j \in DOMAIN df :
                            /\ ~df[j].obsolete
                            /\ SameGroup(df[j], df[i])
                            /\ df[j].primary_t < df[i].primary_t})>>

\* C2 witness: one group ranked 1, 1, 3.
C2_Witness ==
    /\ rpc = "done"
    /\ \E i, j, k \in DOMAIN df :
        /\ i # j
        /\ SameGroup(df[i], df[j]) /\ SameGroup(df[i], df[k])
        /\ df[i].place = <<1>> /\ df[j].place = <<1>> /\ df[k].place = <<3>>

\* C3: in the returned table a place is null exactly for the obsolete
\* records; every other record carries an integer place >= 1.
C3_PlaceNullIffObsolete ==
    rpc = "done" =>
        \A i \in DOMAIN df :
            /\ (df[i].place = NoPlace) <=> df[i].obsolete
            /\ ~df[i].obsolete => (Len(df[i].place) = 1 /\ df[i].place[1] >= 1)

\* C3 witness: a returned table with an obsolete, unranked record next to a
\* ranked one of the same cohort.
C3_Witness ==
    /\ rpc = "done"
    /\ \E i, j \in DOMAIN df :
        /\ SameCohort(df[i], df[j])
        /\ df[i].obsolete /\ df[i].place = NoPlace
        /\ ~df[j].obsolete /\ df[j].place = <<1>>

\* The rows of the group of row i, and of its player-note cohort.
GroupOf(i)  == {j \in DOMAIN df : SameGroup(df[j], df[i])}
CohortOf(i) == {j \in DOMAIN df : SameCohort(df[j], df[i])}

\* C17 (as claimed): the only record of a group is non-obsolete with place
\* 1, and the only record of a player-note cohort is non-obsolete, whether
\* or not the record has an attributed player or a level.
C17_SingleRecordFirst ==
    rpc = "done" =>
        \A i \in DOMAIN df :
            /\ GroupOf(i) = {i} => (~df[i].obsolete /\ df[i].place = <<1>>)
            /\ CohortOf(i) = {i} => ~df[i].obsolete

\* The table with obsolete and place as they were before ranking (lines
\* 103-104).
Unranked ==
    [i \in DOMAIN df |-> [df[i] EXCEPT !.obsolete = FALSE, !.place = NoPlace]]

\* What marking and ranking yields for the group of row i when the table
\* holds the records of that group and no others.
GroupAlone(i) ==
    mark_obsolete_and_place(loc_copy(Unranked, GroupOf(i)),
                            IF df[i].level = NA THEN FullGameCols ELSE LevelCols)

HeldTogether(i, j) ==
    /\ i # j
    /\ SameGroup(df[i], df[j])
    /\ df[i].player_id # NA
    /\ df[i].player_id = df[j].player_id
    /\ ~df[i].obsolete /\ ~df[j].obsolete

\* C24 (as claimed): two non-obsolete records one player holds in one
\* ranking group belong to the same player-note cohort and have equal
\* durations.
C24_OnePlayerOnlyTies ==
    rpc = "done" =>
        \A i, j \in DOMAIN df :
            HeldTogether(i, j) =>
                SameCohort(df[i], df[j]) /\ df[i].primary_t = df[j].primary_t

\* C24 (amended): two non-obsolete records one player holds in one ranking
\* group either carry different notes (each is the best of its own
\* player-note cohort) or have equal durations; both are ranked.
C24_OnePlayerOnlyTiesPerNote ==
    rpc = "done" =>
        \A i, j \in DOMAIN df :
            HeldTogether(i, j) =>
                /\ df[i].note = df[j].note => df[i].primary_t = df[j].primary_t
                /\ df[i].place # NoPlace /\ df[j].place # NoPlace
                /\ df[i].primary_t = CohortMin(i)

\* C24 witness: a player holds a tie of two records in one cohort and a
\* slower record under the other note, all three ranked in one group.
C24_Witness ==
    /\ rpc = "done"
    /\ \E i, j, k \in DOMAIN df :
        /\ HeldTogether(i, j) /\ HeldTogether(i, k)
        /\ SameCohort(df[i], df[j]) /\ df[i].primary_t = df[j].primary_t
        /\ df[k].note # df[i].note /\ df[k].primary_t > df[i].primary_t
        /\ df[i].place = <<1>> /\ df[j].place = <<1>> /\ df[k].place = <<3>>

\* ------------------------------------------------------------------------
\* Claims: verified-run repository (SpecRepo)
\* ------------------------------------------------------------------------

IdsOf(runs) == {runs[k].id : k \in DOMAIN runs}

\* The last record of a list that carries the identity `id`.
LastWithId(runs, id) ==
    runs[CHOOSE k \in DOMAIN runs :
            /\ runs[k].id = id
            /\ \A m \in DOMAIN runs : runs[m].id = id => m <= k]

\* The verified records of the merged set, in the merged set's order.
VerifiedOfMerged == SelectSeq(combined, LAMBDA r : r.status = "verified")

\* C4: the call raises exactly when the verified subset of the merged
\* records is empty and the cache read before the merge was empty; the error
\* then carries the collection's error (a failed collection with an empty
\* or absent cache always ends so); every other call returns a non-empty
\* list.
C4_RaisesIffNothingVerified ==
    vpc = "ended" =>
        /\ outcome.kind \in {"raise", "return"}
        /\ (outcome.kind = "raise") <=>
               (/\ \A k \in DOMAIN combined : combined[k].status # "verified"
                /\ existing_runs = <<>>)
        /\ outcome.kind = "raise" => outcome.context = last_exc
        /\ (last_exc # NA /\ existing_runs = <<>>) => outcome.kind = "raise"
        /\ outcome.kind = "return" => outcome.value # <<>>

\* C4 witness: a failed collection over an absent or empty cache ended in
\* the error, which carries the collection's error.
C4_Witness ==
    /\ vpc = "ended"
    /\ last_exc \in CollectErrors
    /\ existing_runs = <<>>
    /\ outcome.kind = "raise"
    /\ outcome.context = last_exc

\* C5: a failed collection over a non-empty cache returns the cache content
\* as read, same records in the same order, and does not raise.
C5_FailedFetchReturnsCache ==
    (vpc = "ended" /\ last_exc # NA /\ existing_runs # <<>>) =>
        outcome = [kind |-> "return", value |-> existing_runs]

\* C5 witness: a failed collection answered from a cache of two records.
C5_Witness ==
    /\ vpc = "ended"
    /\ last_exc \in CollectErrors
    /\ Len(existing_runs) = 2
    /\ outcome.kind = "return"
    /\ outcome.value = existing_runs

\* C6: the merged set holds exactly one record per identity of the cached
\* and the fetched list; an identity the fetch delivered is represented by
\* its (last) fetched record, any other by its cached record.
C6_MergeByIdentity ==
    vpc = "ended" =>
        /\ IdsOf(combined) = IdsOf(existing_runs) \cup IdsOf(fetched_runs)
        /\ \A k, m \in DOMAIN combined : combined[k].id = combined[m].id => k = m
        /\ \A k \in DOMAIN combined :
              combined[k] =
                  IF combined[k].id \in IdsOf(fetched_runs)
                  THEN LastWithId(fetched_runs, combined[k].id)
                  ELSE LastWithId(existing_runs, combined[k].id)

\* C6 witness: an identity both cached and fetched, with different records,
\* is represented by the fetched one.
C6_Witness ==
    /\ vpc = "ended"
    /\ \E a \in DOMAIN existing_runs, b \in DOMAIN fetched_runs, k \in DOMAIN combined :
        /\ existing_runs[a].id = fetched_runs[b].id
        /\ existing_runs[a] # fetched_runs[b]
        /\ combined[k] = fetched_runs[b]

\* C7 (as claimed): after every call, whatever its outcome, the cache file
\* holds exactly the verified records of the merged set.
C7_CacheAlwaysOverwritten ==
    vpc = "ended" => cacheFile = JsonFile(VerifiedOfMerged)

\* C7 (amended): after every call whose cache write succeeded, whatever the
\* call's outcome, the cache file holds exactly the verified records of the
\* merged set (possibly none), so no cached record whose fetched copy is no
\* longer verified is left in it; a failed write is swallowed: the call ends
\* as it would have, and the cache file then reads as before or as empty.
C7_CacheOverwrittenWhenWritten ==
    vpc = "ended" =>
        /\ writeOk =>
              /\ cacheFile = JsonFile(VerifiedOfMerged)
              /\ \A a \in DOMAIN existing_runs :
                    (/\ existing_runs[a].id \in IdsOf(fetched_runs)
                     /\ LastWithId(fetched_runs, existing_runs[a].id).status # "verified")
                        => existing_runs[a].id \notin IdsOf(cacheFile.content)
        /\ ~writeOk =>
              /\ safe_read_json(cacheFile, <<>>) \in {existing_runs, <<>>}
              /\ outcome.kind = "raise" =>
                    (existing_runs = <<>> /\ VerifiedOfMerged = <<>>)
              /\ outcome.kind = "return" =>
                    outcome.value \in {existing_runs, VerifiedOfMerged}

\* C7 witness: the only cached record came back rejected; the call returned
\* the pre-merge cache and the cache file was overwritten with the empty list.
C7_Witness ==
    /\ vpc = "ended"
    /\ writeOk
    /\ existing_runs # <<>>
    /\ verified_runs = <<>>
    /\ outcome.kind = "return"
    /\ cacheFile = JsonFile(<<>>)

\* C16 (as claimed): a call that repeats the call before it against the same
\* fetch result leaves the cache file as the first call left it.
C16_SecondCallKeepsCache ==
    (vpc = "ended" /\ once.again) => cacheFile = once.file

\* C16 (amended): when both cache writes succeed, a call that repeats the
\* call before it against the same fetch result leaves the cache file with
\* the content the first call left, same records in the same order; the
\* repeated call merges nothing new: its verified set is what it read.
C16_SecondCallKeepsCacheWhenWritten ==
    (vpc = "ended" /\ once.again /\ once.ok /\ writeOk) =>
        /\ cacheFile = once.file
        /\ verified_runs = existing_runs
        /\ cacheFile = JsonFile(existing_runs)

\* C16 witness: two records were fetched and written, the call was
\* repeated, and the cache holds the same two records.
C16_Witness ==
    /\ vpc = "ended"
    /\ once.again /\ once.ok /\ writeOk
    /\ Len(fetched_runs) = 2
    /\ once.file = JsonFile(fetched_runs)
    /\ cacheFile = once.file

\* C19: when no record of the merged set is verified and the cache, as it
\* was read before the merge and the write, held records, the call returns
\* exactly those records and does not raise.
C19_EmptyVerifiedReturnsPreMergeCache ==
    (/\ vpc = "ended"
     /\ \A k \in DOMAIN combined : combined[k].status # "verified"
     /\ safe_read_json(cacheBefore, <<>>) # <<>>) =>
        /\ outcome = [kind |-> "return", value |-> cacheBefore.content]
        /\ existing_runs = cacheBefore.content

\* C19 witness: both cached records came back rejected; the cache file was
\* overwritten with the empty list and the call returned the two records
\* the cache held before.
C19_Witness ==
    /\ vpc = "ended"
    /\ last_exc = NA
    /\ cacheBefore.state = "json"
    /\ Len(cacheBefore.content) = 2
    /\ Len(fetched_runs) = 2
    /\ combined # <<>>
    /\ \A k \in DOMAIN combined : combined[k].status = "rejected"
    /\ cacheFile = JsonFile(<<>>)
    /\ outcome = [kind |-> "return", value |-> cacheBefore.content]

\* The records the cache file held when the call started, and holds now.
CachedBefore == IF cacheBefore.state = "json" THEN cacheBefore.content ELSE <<>>
CachedNow    == IF cacheFile.state = "json" THEN cacheFile.content ELSE <<>>

Records(runs) == {runs[k] : k \in DOMAIN runs}

\* A cached record is kept unless a fetched record of its identity is not
\* verified.
Retained ==
    \A r \in Records(CachedBefore) :
        /\ (r.status = "verified" /\ r.id \notin IdsOf(fetched_runs)) =>
              r \in Records(CachedNow)
        /\ r.id \notin IdsOf(CachedNow) =>
              \E f \in Records(fetched_runs) : f.id = r.id /\ f.status # "verified"

C27_CacheHoldsOnlyVerified ==
    /\ \A k \in DOMAIN CachedNow : CachedNow[k].status = "verified"
    /\ \A k, m \in DOMAIN CachedNow : CachedNow[k].id = CachedNow[m].id => k = m
    /\ vpc = "ended" =>
          \A f \in Records(fetched_runs) :
              f.status # "verified" => f \notin Records(CachedNow)

\* C27 witness: a rejected and a verified record were fetched over a cache
\* of one record; the cache holds two verified records, not the rejected.
C27_Witness ==
    /\ vpc = "ended"
    /\ Len(CachedBefore) = 1
    /\ Len(fetched_runs) = 2
    /\ \E f \in Records(fetched_runs) : f.status = "rejected"
    /\ Len(CachedNow) = 2
    /\ \A k \in DOMAIN CachedNow : CachedNow[k].status = "verified"

\* C28 (as claimed): a call whose collection failed, made right after a
\* call that returned, returns a non-empty list.
C28_DegradationPersists ==
    (vpc = "ended" /\ last_exc # NA /\ prev.kind = "return") =>
        outcome.kind = "return" /\ outcome.value # <<>>

\* C28 (amended): a call whose collection failed, made right after a call
\* that returned its verified runs and wrote them to the cache, returns the
\* non-empty cache content; made right after a call that had no verified
\* runs, returned the pre-merge cache and wrote the empty list, it raises.
C28_DegradationPersistsAfterWrittenRuns ==
    (vpc = "ended" /\ last_exc # NA /\ prev.kind = "return" /\ prev.written) =>
        /\ prev.fresh =>
              /\ outcome = [kind |-> "return", value |-> CachedBefore]
              /\ outcome.value # <<>>
        /\ ~prev.fresh => outcome.kind = "raise"

\* C28 witness: after a call that returned and wrote two verified runs, the
\* collection failed and the call returned the two runs from the cache.
C28_Witness ==
    /\ vpc = "ended"
    /\ last_exc \in CollectErrors
    /\ prev = [kind |-> "return", fresh |-> TRUE, written |-> TRUE]
    /\ outcome.kind = "return"
    /\ Len(outcome.value) = 2

\* ------------------------------------------------------------------------
\* Claims: resilient fetch client (SpecFetch)
\* ------------------------------------------------------------------------

Last(q) == q[Len(q)]

Succeeded == responses # <<>> /\ Last(responses).kind = "ok"

\* The "data" member of a body when it has one, else the body.
DataOrBody(body) == IF "data" \in DOMAIN body THEN body.data ELSE body

\* C8: at most max_retries + 1 attempts; every attempt but the last failed
\* with a request exception; a successful attempt is the last one, the call
\* returns the data of its payload, and one sleep was taken per failed
\* attempt before it.
C8_AttemptsBounded ==
    /\ Len(responses) <= max_retries + 1
    /\ \A k \in 1..(Len(responses) - 1) : responses[k].kind = "exception"
    /\ Succeeded =>
          /\ fpc = "returned"
          /\ result = [kind |-> "return", value |-> DataOrBody(Last(responses).payload)]
          /\ Len(sleeps) = Len(responses) - 1

\* C8 witness: 429 with Retry-After: 3, then success; one sleep of 3 seconds
\* and the second attempt's data returned.
C8_Witness ==
    /\ Len(responses) = 2
    /\ responses[1].kind = "exception"
    /\ responses[1].exc = [response |-> TRUE, status_code |-> 429,
                           retry_after |-> [kind |-> "int", n |-> 3]]
    /\ responses[2].kind = "ok"
    /\ responses[2].payload = [data |-> [items |-> "pageB"]]
    /\ sleeps = <<3>>
    /\ result = [kind |-> "return", value |-> [items |-> "pageB"]]

Is429(e) == e.response /\ e.status_code = 429

C10_SuccessReturnsDataBestEffortCache ==
    Succeeded =>
        LET body  == Last(responses).payload
            value == IF "data" \in DOMAIN body THEN body.data ELSE body
        IN  /\ result = [kind |-> "return", value |-> value]
            /\ (cache_file # NA /\ value # JsonNull /\ Last(responses).write = "written")
                  => apiCache = JsonFile(value)

\* C10 witness: a cache file was supplied, the value is non-null, the write
\* failed after truncating the file, and the value was returned all the same.
C10_Witness ==
    /\ Succeeded
    /\ cache_file # NA
    /\ Last(responses).write = "torn"
    /\ Last(responses).payload = [id |-> "u1"]
    /\ apiCache = CorruptFile
    /\ result = [kind |-> "return", value |-> [id |-> "u1"]]

\* All max_retries + 1 attempts were made and failed, and the call has ended.
AllAttemptsFailed ==
    /\ fpc \in {"returned", "raised"}
    /\ Len(responses) = max_retries + 1
    /\ \A k \in DOMAIN responses : responses[k].kind = "exception"

FailedAttempts ==
    Cardinality({k \in DOMAIN responses : responses[k].kind = "exception"})

\* C30: one sleep after every failed attempt, the final one included: the
\* sleeps taken so far are as many as the failed attempts; when the loop has
\* run out of attempts, max_retries + 1 sleeps have been taken before the
\* cache file is read or the error raised; a successful attempt is followed
\* by no sleep (it ends the call, and the sleeps are those of the failures
\* before it).
C30_SleepAfterEveryFailure ==
    /\ Len(sleeps) = FailedAttempts
    /\ (fpc = "exhausted" \/ AllAttemptsFailed) => Len(sleeps) = max_retries + 1
    /\ (responses # <<>> /\ Last(responses).kind = "ok") =>
            /\ fpc = "returned"
            /\ Len(sleeps) = Len(responses) - 1

\* C30 witness: max_retries = 2, three failed attempts, three sleeps taken and
\* the cache file not yet read.
C30_Witness ==
    /\ fpc = "exhausted"
    /\ max_retries = 2
    /\ FailedAttempts = 3
    /\ Len(sleeps) = 3
    /\ result = [kind |-> "none"]

\* ------------------------------------------------------------------------
\* Claims: paginated collector (SpecCollect)
\* ------------------------------------------------------------------------

\* The pages the call's requests delivered, in request order.
RECURSIVE ConcatPages(_)
ConcatPages(reqs) ==
    IF reqs = <<>> THEN <<>>
    ELSE ConcatPages(SubSeq(reqs, 1, Len(reqs) - 1))
            \o Last(reqs).result.value.items

NonEmptyPages(reqs) ==
    {k \in DOMAIN reqs : reqs[k].result.value.items # <<>>}

\* C12 (as claimed): a call that returns yields the concatenation, in
\* request order, of the non-empty pages it fetched; every page but the
\* last requested is non-empty, and the last is empty unless max_pages
\* pages were fetched; with max_pages given the result holds at most
\* max_pages pages.
C12_ConcatenationBoundedByMaxPages ==
    cpc = "returned" =>
        /\ collected = [kind |-> "return", value |-> ConcatPages(requests)]
        /\ \A k \in 1..(Len(requests) - 1) : k \in NonEmptyPages(requests)
        /\ \/ Len(requests) \notin NonEmptyPages(requests)
           \/ max_pages # NoArg /\ Cardinality(NonEmptyPages(requests)) >= max_pages[1]
        /\ max_pages # NoArg => Cardinality(NonEmptyPages(requests)) <= max_pages[1]

RECURSIVE SumMax(_, _)
\* The sum of the max values sent in the first k requests.
SumMax(reqs, k) == IF k = 0 THEN 0 ELSE SumMax(reqs, k - 1) + reqs[k].max

\* C20 (as claimed): every request's offset is the sum of the max values
\* sent in the earlier requests of the call, so the k-th request (0-based)
\* has offset k * max, whatever page_size argument was given and when the
\* client default is used.
C20_OffsetIsSumOfSizesSent ==
    \A k \in DOMAIN requests :
        /\ requests[k].offset = SumMax(requests, k - 1)
        /\ requests[k].offset = (k - 1) * requests[k].max

\* C29 (as claimed): get_all_runs terminates, by returning or by raising,
\* for every cache_file, max_pages and page_size, requests served from the
\* cache file included.
C29_CollectAllTerminates == <>(cpc \in {"returned", "raised"})

\* ------------------------------------------------------------------------
\* Claims: run normalizer & enricher (SpecProc)
\* ------------------------------------------------------------------------

\* A catalog fetch that exhausted its retries and found no readable cache.
Unobtainable(f) == ~f.ok /\ f.cache # "json"

\* C13: the run fails with RuntimeError "Failed to load categories" or
\* "Failed to load levels" whenever the fetch of that catalog exhausted its
\* retries and no readable cache of it existed, and only a fetch error makes
\* it fail so; such a run has made no later fetch, returns no table, and
\* its rows are as they were before any ranking; ranking starts only with
\* both catalogs obtained.
C13_CatalogUnavailableIsFatal ==
    /\ \A k \in DOMAIN catalogFetches :
          Unobtainable(catalogFetches[k]) =>
              /\ rpc = "raised"
              /\ k = Len(catalogFetches)
              /\ processed.kind = "raise"
              /\ processed.error = "RuntimeError"
              /\ processed.message = <<"Failed to load", catalogFetches[k].what>>
              /\ processed.cause.kind = "raise"
              /\ \A i \in DOMAIN df : df[i] \in ProcRows
    /\ (rpc = "raised" /\ processed.error = "RuntimeError") =>
          Unobtainable(Last(catalogFetches))
    /\ rpc \in {"normalized", "done", "returned"} =>
          /\ Len(catalogFetches) = 2
          /\ \A k \in DOMAIN catalogFetches : ~Unobtainable(catalogFetches[k])
          /\ categories # Unset /\ levels # Unset

\* C13 witness: the categories were fetched, the level fetch exhausted its
\* retries over an unreadable cache file, and the run failed.
C13_Witness ==
    /\ rpc = "raised"
    /\ Len(catalogFetches) = 2
    /\ catalogFetches[1].ok
    /\ catalogFetches[2] = [what |-> "levels", ok |-> FALSE, cache |-> "corrupt"]
    /\ processed.message = <<"Failed to load", "levels">>
    /\ processed.cause.cause = [response |-> FALSE]
    /\ df # <<>>

\* ------------------------------------------------------------------------
\* Claims: player names over several runs (SpecPlayers)
\* ------------------------------------------------------------------------

\* The keys of a player cache file, none when it is missing or unreadable.
KeysOf(file) == DOMAIN safe_read_json(file, <<>>)

\* The last run looked up exactly the ids of its table the cache lacked,
\* and stored the id itself for each lookup that failed.
LookedUpIffAbsent ==
    /\ looked_up = input_ids \ KeysOf(cacheAtStart)
    /\ \A p \in FailedNow : player_map[p] = p

\* C21 (as claimed): an id is looked up iff the cache lacks it, a failed
\* lookup stores the id as the name, and an id whose lookup failed in an
\* earlier run is not looked up again.
C21_FailedLookupNotRetried ==
    runNo >= 1 =>
        /\ LookedUpIffAbsent
        /\ looked_up \cap failedBefore = {}

\* C21 (amended): as claimed, the last part as long as every cache write of
\* the earlier runs succeeded.
C21_FailedLookupNotRetriedWhenWritten ==
    runNo >= 1 =>
        /\ LookedUpIffAbsent
        /\ writtenBefore => looked_up \cap failedBefore = {}

\* C21 witness: the second run meets p1, whose lookup failed in the first
\* run, again and makes no lookup for it, while it looks p2 up.
C21_Witness ==
    /\ runNo = 2
    /\ writtenBefore
    /\ failedBefore = {"p1"}
    /\ input_ids = {"p1", "p2"}
    /\ looked_up = {"p2"}
    /\ player_map["p1"] = "p1"

\* C22 (as claimed): after any runs the player cache file maps every player
\* id of the processed table to a string, the resolved name or the id
\* itself; no key maps to null; the keys it had before a run are still there.
C22_CacheMapsIdsToStrings ==
    runNo >= 1 =>
        /\ playerCache.state = "json"
        /\ input_ids \subseteq KeysOf(playerCache)
        /\ \A p \in KeysOf(playerCache) : playerCache.content[p] # NA
        /\ \A p \in looked_up :
               playerCache.content[p] \in
                   IF answers[p].ok
                   THEN {answers[p].international, answers[p].japanese} \ {NA}
                   ELSE {p}
        /\ KeysOf(cacheAtStart) \subseteq KeysOf(playerCache)

\* A first run over an empty cache whose write succeeds leaves a null name
\* in the file.
NullNameWritten ==
    /\ runNo = 1
    /\ cacheAtStart = AbsentFile
    /\ playerWrite = "written"
    /\ \E p \in KeysOf(playerCache) : playerCache.content[p] = NA

\* ------------------------------------------------------------------------
\* Claims: run normalization (SpecNorm)
\* ------------------------------------------------------------------------

\* The raw run lacks its identity, link, category, performance date,
\* submission time, primary duration, note attribute or character attribute.
LacksRequired(run) ==
    \/ \E k \in {"id", "weblink", "category", "date", "submitted"} : k \notin DOMAIN run
    \/ "times" \notin DOMAIN run
    \/ "primary_t" \notin DOMAIN run.times
    \/ "values" \notin DOMAIN run
    \/ NOTE_KEY \notin DOMAIN run.values
    \/ CHARACTER_KEY \notin DOMAIN run.values

\* The row carries the required members of the raw run as they came.
CarriesRequired(row, run) ==
    /\ row.id = run.id
    /\ row.weblink = run.weblink
    /\ row.category = run.category
    /\ row.date = run.date
    /\ row.submitted = run.submitted
    /\ row.primary_t = run.times.primary_t
    /\ row.note = run.values[NOTE_KEY]
    /\ row.character = run.values[CHARACTER_KEY]

\* C23: a raw run that lacks a required field makes process_runs fail with
\* an error; when the rows are built, no input run lacked a required field
\* and every row carries the raw values, none of them defaulted.
C23_MissingFieldFailsLoudly ==
    npc # "clean" =>
        /\ (\E i \in DOMAIN runs_in : LacksRequired(runs_in[i])) =>
               /\ npc = "raised"
               /\ norm_error.kind = "raise"
               /\ cleaned_runs = <<>>
        /\ npc = "cleaned" =>
               /\ Len(cleaned_runs) = Len(runs_in)
               /\ \A i \in DOMAIN runs_in :
                      /\ ~LacksRequired(runs_in[i])
                      /\ CarriesRequired(cleaned_runs[i], runs_in[i])

\* C23 witness: the second of two runs has no performance date; the call
\* ends with the KeyError for "date" and builds no table.
C23_Witness ==
    /\ npc = "raised"
    /\ Len(runs_in) = 2
    /\ runs_in[1] = FullRun("r1")
    /\ "date" \notin DOMAIN runs_in[2]
    /\ norm_error = [kind |-> "raise", error |-> "KeyError", key |-> "date"]
    /\ cleaned_runs = <<>>

\* ------------------------------------------------------------------------
\* Claims: snapshot and refresh clock (SpecData)
\* ------------------------------------------------------------------------

\* The timestamp a file holds, None when it holds none.
Stored(file) == get_global_last_refresh(file)

\* C14: a forced call made less than the cooldown after the stored
\* timestamp while the snapshot file exists runs no pipeline, changes
\* neither the timestamp nor the snapshot and answers from the snapshot file
\* (its table; the read error when the file is unreadable); so a pipeline
\* run over an existing snapshot is at least the cooldown after the stored
\* timestamp, and so is every timestamp that replaces one.
C14_CooldownHoldsForcedRefresh ==
    dpc = "ended" =>
        /\ (/\ force_refresh
            /\ Stored(refreshBefore) # NoArg
            /\ now - Stored(refreshBefore)[1] < COOLDOWN_SECONDS
            /\ dataBefore.state # "absent") =>
              /\ ~ran
              /\ refreshFile = refreshBefore
              /\ dataFile = dataBefore
              /\ dataBefore.state = "csv" =>
                    returned = [kind |-> "return", value |-> dataBefore.content]
              /\ dataBefore.state # "csv" => returned.kind = "raise"
        /\ (ran /\ dataBefore.state # "absent" /\ Stored(refreshBefore) # NoArg) =>
              now - Stored(refreshBefore)[1] >= COOLDOWN_SECONDS
        /\ (/\ refreshFile # refreshBefore
            /\ Stored(refreshBefore) # NoArg
            /\ dataBefore.state # "absent") =>
              Stored(refreshFile)[1] - Stored(refreshBefore)[1] >= COOLDOWN_SECONDS

\* C14 witness: a forced call 7199 seconds after the stored timestamp was
\* answered from the snapshot without a pipeline run.
C14_Witness ==
    /\ dpc = "ended"
    /\ force_refresh
    /\ ~ran
    /\ Stored(refreshBefore) # NoArg
    /\ now - Stored(refreshBefore)[1] = COOLDOWN_SECONDS - 1
    /\ returned = [kind |-> "return", value |-> dataBefore.content]
    /\ refreshFile = refreshBefore

\* What the claim and its amendment share: the timestamp changes only in a
\* call whose pipeline run returned, and then to that call's time; a
\* pipeline run that raised leaves it as it was, and the forced call that
\* follows a failed run is not held back.
StampOnlyAfterSuccess ==
    /\ refreshFile # refreshBefore =>
          /\ ran
          /\ returned.kind = "return"
          /\ Stored(refreshFile) = <<now>>
    /\ (ran /\ returned.kind = "raise") =>
          /\ refreshFile = refreshBefore
          /\ retrying
    /\ (force_refresh /\ wasRetry) => ran

\* C15 (as claimed): the stored timestamp is the time of the last call whose
\* pipeline run returned.
C15_StoredIsLastSuccess ==
    dpc = "ended" =>
        /\ StampOnlyAfterSuccess
        /\ lastSuccess # NoArg => Stored(refreshFile) = lastSuccess

\* C15 (amended): the stored timestamp is the time of the last call whose
\* pipeline run returned and whose timestamp write succeeded: after such a
\* call it is that call's time; a failed timestamp write leaves the file as
\* it was, holding the time of an earlier successful refresh or none.
C15_StoredIsLastStampedSuccess ==
    dpc = "ended" =>
        /\ StampOnlyAfterSuccess
        /\ (ran /\ returned.kind = "return" /\ stamped) =>
              Stored(refreshFile) = <<now>> /\ lastSuccess = <<now>>
        /\ (ran /\ returned.kind = "return" /\ ~stamped) =>
              refreshFile = refreshBefore /\ lastSuccess = <<now>>
        /\ Stored(refreshFile) # NoArg =>
              /\ lastSuccess # NoArg
              /\ Stored(refreshFile)[1] <= lastSuccess[1]

\* C15 witness: a refresh succeeded and was stamped, the next pipeline run
\* failed a cooldown later and left the stamp.
C15_Witness ==
    /\ dpc = "ended"
    /\ ran
    /\ returned = [kind |-> "raise", error |-> "NoVerifiedRuns"]
    /\ Stored(refreshFile) # NoArg
    /\ Stored(refreshFile) = lastSuccess
    /\ now - Stored(refreshFile)[1] >= COOLDOWN_SECONDS
    /\ refreshFile = refreshBefore
    /\ force_refresh /\ wasRetry


\* ------------------------------------------------------------------------
\* Claims: timestamp file (SpecStamp)
\* ------------------------------------------------------------------------

\* At every point of a call the timestamp file holds the complete value it
\* had when the call started or the complete new one; the call never raises;
\* it returns True exactly when the file holds the new value.
AtomicallyReplaced ==
    /\ lastRefreshFile \in {targetBefore, StampFile(stamp_ts)}
    /\ stampResult.kind \in {"none", "return"}
    /\ spc = "returned" =>
            /\ stampResult.kind = "return"
            /\ stampResult.value = (lastRefreshFile = StampFile(stamp_ts))
            /\ ~stampResult.value => lastRefreshFile = targetBefore

FailedCall == spc = "returned" /\ stampResult = [kind |-> "return", value |-> FALSE]

\* C25 (as claimed): the timestamp file is replaced atomically, and on any
\* failure the call returns False without raising and has removed the
\* temporary file.
C25_AtomicReplaceTmpRemoved ==
    /\ AtomicallyReplaced
    /\ FailedCall => tmpFile = AbsentFile

\* C25 (amended): the timestamp file is replaced atomically, and on any
\* failure the call returns False without raising; the temporary file is
\* gone afterwards unless its removal failed, which is logged and ignored.
C25_AtomicReplaceTmpRemovedBestEffort ==
    /\ AtomicallyReplaced
    /\ (FailedCall /\ cleanup # "failed") => tmpFile = AbsentFile
    /\ (FailedCall /\ cleanup = "failed") => tmpFile # AbsentFile

\* C25 witness: the second call fails between the two steps (the temporary
\* file is complete, os.replace raises): False is returned, the file still
\* holds the first call's stamp and the temporary file has been removed.
C25_Witness ==
    /\ FailedCall
    /\ stamp_ts = 2
    /\ failedAt = "replace"
    /\ targetBefore = StampFile(1)
    /\ lastRefreshFile = StampFile(1)
    /\ cleanup = "removed"
    /\ tmpFile = AbsentFile

====
